---------------------------- MODULE Spec2Model ----------------------------
(***************************************************************************)
(* kHeavyHash proof-of-work kernel of the Nami Kaspa miner                 *)
(* (kaspa_pow.pyx = v1, kaspa_pow_v2.pyx = v2, kaspa_pow_v3.pyx = v3) and  *)
(* the bits_to_target decoder of skills/kaspa/SKILL.md.                    *)
(*                                                                         *)
(* Representation.  TLC integers are 32 bits wide, so a uint64_t is a      *)
(* function from bit positions 0..63 to {0,1} (bit 0 least significant)    *)
(* and every C operator on it is written out on bits.  A Python bytes      *)
(* object is a sequence of numbers in 0..255.  A C double of the rank      *)
(* computation is an exact fraction <<numerator, denominator>>.            *)
(*                                                                         *)
(* Scale.  The source fixes the hash length at 32 bytes and the matrix at  *)
(* 64 x 64.  The model keeps the shape (Size = 2 * HashLen, one PRNG word  *)
(* per group of 16 columns, nibble cells) and takes HashLen as its bound.  *)
(* The 32-byte digest, the four 64-bit seeds, the 80-byte header and the   *)
(* 32 bytes squeezed from the final pass keep their source sizes.          *)
(***************************************************************************)
EXTENDS Integers, Sequences, FiniteSets, TLC

(***************************************************************************)
(* Bounds of the model                                                     *)
(***************************************************************************)
\* bytes squeezed from the first cSHAKE256 pass (32 in the source)
HashLen == 1
\* the attempt counter of the retry loop saturates here
MaxAttempts == 3

\* bytes of a 32-byte hash or target that vary: the first and the last
\* CmpLen - 1
CmpLen == 2
\* words a generator on its own is asked for
MaxDraws == 3
\* bot processes started in a run of the model, the first one included
MaxStarts == 3
\* nonces in a batch whose buffer is followed
MaxBatch == 4

(***************************************************************************)
(* Program constants                                                       *)
(***************************************************************************)
WordBits == 64
NibbleBits == 4
NibblesPerWord == 16
PrePowLen == 32
PadLen == 32
QuantShift == 10
EpsilonInv == 1000000000
OutLen == 32

\* matrix dimension: two nibbles per hash byte (64 in the source)
Size == 2 * HashLen

Byte == 0..255
BitIx == 0..(WordBits - 1)

Min(a, b) == IF a < b THEN a ELSE b
Max(a, b) == IF a > b THEN a ELSE b
Abs(a) == IF a < 0 THEN -a ELSE a

RECURSIVE Pow2(_)
Pow2(n) == IF n = 0 THEN 1 ELSE 2 * Pow2(n - 1)

\* bit k of a small non-negative integer
Bit(n, k) == (n \div Pow2(k)) % 2

(***************************************************************************)
(* uint64_t arithmetic                                                     *)
(***************************************************************************)
ZeroWord == [k \in BitIx |-> 0]

\* the word x, fully evaluated (TLC builds functions lazily)
Word(x) == IF x = ZeroWord THEN ZeroWord ELSE x

\* x << k on uint64_t
Shl(x, k) == Word([i \in BitIx |-> IF i >= k THEN x[i - k] ELSE 0])

\* x >> k on uint64_t
Shr(x, k) == Word([i \in BitIx |-> IF i + k < WordBits THEN x[i + k] ELSE 0])

BitOr(x, y) == Word([i \in BitIx |-> IF x[i] = 1 \/ y[i] = 1 THEN 1 ELSE 0])

BitXor(x, y) == Word([i \in BitIx |-> (x[i] + y[i]) % 2])

\* bits 16l .. 16l + 15 of x as a number
Limb(x, l) ==
    LET b(n) == x[16 * l + n]
    IN  b(0) + 2 * b(1) + 4 * b(2) + 8 * b(3) + 16 * b(4) + 32 * b(5) + 64 * b(6)
        + 128 * b(7) + 256 * b(8) + 512 * b(9) + 1024 * b(10) + 2048 * b(11)
        + 4096 * b(12) + 8192 * b(13) + 16384 * b(14) + 32768 * b(15)

\* the word whose 16-bit parts are the low 16 bits of a, b + carry,
\* c + carry, d + carry: the carry out of the last part is dropped
Carry16(a, b, c, d) ==
    LET sum == <<a, b + (a \div 65536),
                 c + ((b + (a \div 65536)) \div 65536),
                 d + ((c + ((b + (a \div 65536)) \div 65536)) \div 65536)>>
    IN  Word([i \in BitIx |-> Bit(sum[(i \div 16) + 1] % 65536, i % 16)])

\* x + y on uint64_t, added 16 bits at a time
Add64(x, y) ==
    Carry16(Limb(x, 0) + Limb(y, 0), Limb(x, 1) + Limb(y, 1),
            Limb(x, 2) + Limb(y, 2), Limb(x, 3) + Limb(y, 3))

rotl(x, k) == BitOr(Shl(x, k), Shr(x, WordBits - k))

\* (val >> (4 * k)) & 0x0F as a cell value
NibbleOf(val, k) ==
    val[NibbleBits * k] + 2 * val[NibbleBits * k + 1]
    + 4 * val[NibbleBits * k + 2] + 8 * val[NibbleBits * k + 3]

\* (val >> (j * 8)) & 0xFF as a byte
ByteOf(val, j) ==
    LET b(n) == val[8 * j + n]
    IN  b(0) + 2 * b(1) + 4 * b(2) + 8 * b(3)
        + 16 * b(4) + 32 * b(5) + 64 * b(6) + 128 * b(7)

(***************************************************************************)
(* Python bytes                                                            *)
(***************************************************************************)
\* b[lo:hi]: a slice is clipped to the object, it never fails
Slice(b, lo, hi) ==
    LET h == Min(hi, Len(b))
    IN  IF lo >= h THEN << >> ELSE [n \in 1..(h - lo) |-> b[lo + n]]

\* int.from_bytes(b, 'little') stored in a uint64_t, for Len(b) <= 8
FromBytesLE(b) ==
    [k \in BitIx |-> IF (k \div 8) + 1 <= Len(b) THEN Bit(b[(k \div 8) + 1], k % 8) ELSE 0]

\* struct.pack('<Q', w)
PackQ(w) == [n \in 1..8 |-> ByteOf(w, n - 1)]

Zeros(n) == [k \in 1..n |-> 0]

(***************************************************************************)
(* xoshiro256++                                                            *)
(***************************************************************************)
\* The state array s[0..3] is a function on 0..3.
\* (the test st = << >> never holds: it makes TLC evaluate the four words)
StateOf(a, b, c, d) ==
    LET st == [n \in 0..3 |-> <<a, b, c, d>>[n + 1]]
    IN  IF st = << >> THEN << >> ELSE st

\* the call returning the word computed from the state it leaves behind
xoshiro_next_late(s) ==
    LET t   == Shl(s[1], 17)
        s2  == BitXor(s[2], s[0])
        s3  == BitXor(s[3], s[1])
        s1  == BitXor(s[1], s2)
        s0  == BitXor(s[0], s3)
        s3r == rotl(s3, 45)
    IN  [result |-> Add64(rotl(Add64(s0, s3r), 23), s0),
         s |-> StateOf(s0, s1, BitXor(s2, t), s3r)]

\* one call (v3 xoshiro_next on a state array, v1/v2 next_uint64 on the
\* fields of an object): the word returned and the state left behind
xoshiro_next(s) ==
    LET result == Add64(rotl(Add64(s[0], s[3]), 23), s[0])
        t   == Shl(s[1], 17)
        s2  == BitXor(s[2], s[0])
        s3  == BitXor(s[3], s[1])
        s1  == BitXor(s[1], s2)
        s0  == BitXor(s[0], s3)
    IN  [result |-> result, s |-> StateOf(s0, s1, BitXor(s2, t), rotl(s3, 45))]

(***************************************************************************)
(* Fractions standing for the doubles of the rank computation              *)
(***************************************************************************)
RECURSIVE Gcd(_, _)
Gcd(a, b) == IF b = 0 THEN a ELSE Gcd(b, a % b)

\* n / d in lowest terms with a positive denominator
Frac(n, d) ==
    LET g == Gcd(Abs(n), Abs(d))
        sgn == IF d < 0 THEN -1 ELSE 1
    IN  <<sgn * (n \div g), sgn * (d \div g)>>

FracDiv(x, y) ==
    LET g1 == Gcd(Abs(x[1]), Abs(y[1]))
        g2 == Gcd(x[2], y[2])
    IN  IF x[1] = 0 THEN <<0, 1>>
        ELSE Frac((x[1] \div g1) * (y[2] \div g2), (x[2] \div g2) * (y[1] \div g1))

FracMul(x, y) ==
    LET g1 == Gcd(Abs(x[1]), y[2])
        g2 == Gcd(Abs(y[1]), x[2])
    IN  IF x[1] = 0 \/ y[1] = 0 THEN <<0, 1>>
        ELSE <<(x[1] \div g1) * (y[1] \div g2), (x[2] \div g2) * (y[2] \div g1)>>

FracSub(x, y) ==
    LET g == Gcd(x[2], y[2])
    IN  Frac(x[1] * (y[2] \div g) - y[1] * (x[2] \div g), (x[2] \div g) * y[2])

\* x > epsilon or x < -epsilon, with epsilon = 1e-9 = 1 / EpsilonInv
NonNegligible(x) == x[1] # 0 /\ (x[2] \div Abs(x[1])) < EpsilonInv

(***************************************************************************)
(* Rank computation                                                        *)
(***************************************************************************)
Rows == 0..(Size - 1)

\* size, the side of the square array mat_float (64 in the source)
SizeOf(mat_float) == Cardinality(DOMAIN mat_float)

\* the while loop of the pivot search: first j with row j unselected and a
\* non-negligible entry in column i; size when there is none
RECURSIVE FindPivot(_, _, _, _)
FindPivot(mat_float, row_selected, i, j) ==
    IF j >= SizeOf(mat_float) THEN SizeOf(mat_float)
    ELSE IF ~row_selected[j] /\ NonNegligible(mat_float[j][i]) THEN j
    ELSE FindPivot(mat_float, row_selected, i, j + 1)

\* for p in range(i + 1, size): mat_float[j][p] /= mat_float[j][i]
NormalizeRow(mat_float, j, i) ==
    [mat_float EXCEPT ![j] =
        [p \in DOMAIN mat_float |->
            IF p > i THEN FracDiv(mat_float[j][p], mat_float[j][i])
            ELSE mat_float[j][p]]]

\* the elimination that leaves the rows already selected as they are
Eliminate_unselected(mat_float, row_selected, j, i) ==
    [k \in DOMAIN mat_float |->
        IF k # j /\ ~row_selected[k] /\ NonNegligible(mat_float[k][i])
        THEN [p \in DOMAIN mat_float |->
                IF p > i
                THEN FracSub(mat_float[k][p], FracMul(mat_float[j][p], mat_float[k][i]))
                ELSE mat_float[k][p]]
        ELSE mat_float[k]]

\* for k in range(size): if k != j and mat_float[k][i] non-negligible:
\*     for p in range(i + 1, size): mat_float[k][p] -= mat_float[j][p] * mat_float[k][i]
\* (row_selected is not read by this loop)
Eliminate(mat_float, row_selected, j, i) ==
    [k \in DOMAIN mat_float |->
        IF k # j /\ NonNegligible(mat_float[k][i])
        THEN [p \in DOMAIN mat_float |->
                IF p > i
                THEN FracSub(mat_float[k][p], FracMul(mat_float[j][p], mat_float[k][i]))
                ELSE mat_float[k][p]]
        ELSE mat_float[k]]

\* the elimination loop from column i on: the final rank, float matrix and
\* selection flags
RECURSIVE GaussLoop(_, _, _, _)
GaussLoop(mat_float, row_selected, rank, i) ==
    IF i >= SizeOf(mat_float)
    THEN [rank |-> rank, mat_float |-> mat_float, row_selected |-> row_selected]
    ELSE LET j == FindPivot(mat_float, row_selected, i, 0)
         IN  IF j # SizeOf(mat_float)
             THEN GaussLoop(Eliminate(NormalizeRow(mat_float, j, i), row_selected, j, i),
                            [row_selected EXCEPT ![j] = TRUE], rank + 1, i + 1)
             ELSE GaussLoop(mat_float, row_selected, rank, i + 1)

\* v1, v2: compute_rank on a two-dimensional uint16 array
compute_rank(matrix) ==
    GaussLoop([i \in Rows |-> [j \in Rows |-> <<matrix[i][j], 1>>]],
              [i \in Rows |-> FALSE], 0, 0).rank

\* v3: compute_rank_c on the flat C array, cell (i, j) at i * 64 + j
compute_rank_c(matrix) ==
    GaussLoop([i \in Rows |-> [j \in Rows |-> <<matrix[i * Size + j], 1>>]],
              [i \in Rows |-> FALSE], 0, 0).rank

(***************************************************************************)
(* Matrix filling                                                          *)
(***************************************************************************)
\* len(range(0, 64, 16)): PRNG words drawn per row
WordsPerRow == (Size + NibblesPerWord - 1) \div NibblesPerWord
DrawsPerAttempt == Size * WordsPerRow

Cells == 0..(Size * Size - 1)
ZeroMatrix == [i \in Rows |-> [j \in Rows |-> 0]]

\* words drawn for one row of cols cells and for one attempt on a matrix of
\* rows x cols cells
WordsFor(cols) == (cols + NibblesPerWord - 1) \div NibblesPerWord
DrawsFor(rows, cols) == rows * WordsFor(cols)

\* (in the fill loops the tests state = << >> and out_matrix = << >> never
\* hold: they make TLC evaluate the state and the array a draw left before
\* the next draw)
RECURSIVE FillFlat(_, _, _, _, _)
RECURSIVE FillGrid(_, _, _, _, _)

\* draw n unpacked most significant nibble first
FlatDraw_msn(rows, cols, r, out_matrix, n) ==
    LET i    == n \div WordsFor(cols)
        j    == (n % WordsFor(cols)) * NibblesPerWord
        base == i * cols + j
        stop == base + Min(NibblesPerWord, cols - j) - 1
    IN  FillFlat(rows, cols, r.s,
                 [c \in DOMAIN out_matrix |->
                     IF c >= base /\ c <= stop
                     THEN NibbleOf(r.result, NibblesPerWord - 1 - (c - base))
                     ELSE out_matrix[c]], n + 1)

\* v3: draw n of an attempt, r = xoshiro_next(state), serves row
\* i = n / WordsFor(cols), columns j .. j + 15 of the flat array:
\* out_matrix[i * cols + j + k] = (val >> (4 * k)) & 0x0F; then the draws
\* after it
FlatDraw(rows, cols, r, out_matrix, n) ==
    LET i    == n \div WordsFor(cols)
        j    == (n % WordsFor(cols)) * NibblesPerWord
        base == i * cols + j
        stop == base + Min(NibblesPerWord, cols - j) - 1
    IN  FillFlat(rows, cols, r.s,
                 [c \in DOMAIN out_matrix |->
                     IF c >= base /\ c <= stop
                     THEN NibbleOf(r.result, c - base)
                     ELSE out_matrix[c]], n + 1)

\* v3: draws n .. of one attempt written into the flat array out_matrix of
\* a rows x cols matrix (64 x 64 in the source)
FillFlat(rows, cols, state, out_matrix, n) ==
    IF state = << >> \/ out_matrix = << >> \/ n >= DrawsFor(rows, cols)
    THEN [state |-> state, matrix |-> out_matrix]
    ELSE FlatDraw(rows, cols, xoshiro_next(state), out_matrix, n)

\* v1, v2: draw n, r = rng.next_uint64(), on a two-dimensional array:
\* matrix[i, j + k] = (val >> (4 * k)) & 0x0F; then the draws after it
GridDraw(rows, cols, r, matrix, n) ==
    LET i == n \div WordsFor(cols)
        j == (n % WordsFor(cols)) * NibblesPerWord
    IN  FillGrid(rows, cols, r.s,
                 [matrix EXCEPT ![i] =
                     [c \in DOMAIN matrix[i] |->
                         IF c >= j /\ c < j + NibblesPerWord
                         THEN NibbleOf(r.result, c - j)
                         ELSE matrix[i][c]]], n + 1)

\* v1, v2: the same loop on a two-dimensional array, drawing from the rng
\* object whose fields are rng
FillGrid(rows, cols, rng, matrix, n) ==
    IF rng = << >> \/ matrix = << >> \/ n >= DrawsFor(rows, cols)
    THEN [state |-> rng, matrix |-> matrix]
    ELSE GridDraw(rows, cols, xoshiro_next(rng), matrix, n)

\* the fill loops on the matrix of the model
FillC(state, out_matrix, n) == FillFlat(Size, Size, state, out_matrix, n)
Fill2D(rng, matrix, n) == FillGrid(Size, Size, rng, matrix, n)

(***************************************************************************)
(* Inputs                                                                  *)
(***************************************************************************)
\* pre-PoW digests: 32 zero bytes, a digest whose first attempt is rank
\* deficient, a digest whose first attempt has full rank, and the latter
\* with one byte missing and with one byte too many
DZero  == Zeros(PrePowLen)
DOne   == [n \in 1..PrePowLen |-> IF n = 1 THEN 1 ELSE 0]
DFull  == [n \in 1..PrePowLen |-> (7 * n + 3) % 256]
DShort == Slice(DFull, 0, PrePowLen - 1)
DLong  == DFull \o <<9>>

GenDigests == {DZero, DOne, DFull, DShort, DLong}

\* seeds[k] = int.from_bytes(pre_pow_hash[8k : 8k + 8], 'little')
SeedsOf(pre_pow_hash) ==
    [k \in 0..3 |-> FromBytesLE(Slice(pre_pow_hash, 8 * k, 8 * k + 8))]

ZeroState == [k \in 0..3 |-> ZeroWord]

\* the four words a v1 caller passes for a 32-byte digest
GenSeedsV1 == {SeedsOf(d) : d \in {DZero, DOne, DFull}}

\* no matrix (no array allocated, nothing returned)
NoMatrix == << >>

\* contents of a malloc'd block that no earlier call of the module wrote
GarbageC == [c \in Cells |-> 65535 - c]

(***************************************************************************)
(* State                                                                   *)
(***************************************************************************)
VARIABLES
    gen,      \* the generate_matrix call in progress or last finished
    freed,    \* contents of the block last given to free()
    stack,    \* what the last v3 hash call left in pow_hash_c / digest_c
    last,     \* the last hash call: arguments, hash passes, result
    tgt,      \* the last target decode or comparison
    rngs,     \* the generators in existence: seed, state, words emitted
    fill,     \* a fill loop on its own: PRNG state and array contents
    quant,    \* one row of the matrix product: accumulator and p[i]
    elim,     \* a compute_rank call: float matrix, flags, column
    bot,      \* the bot processes, restart_with_test.sh and the watchdog
    heap      \* the matrix_c buffer of a v3 call: pointer, frees, accesses

vars == <<gen, freed, stack, last, tgt, rngs, fill, quant, elim, bot, heap>>

\* start and state are the PRNG state before and after the last attempt,
\* buf the array the attempts write into, checked the matrix the last rank
\* check saw, result the array handed to the caller; retry tells that the
\* call before this one had the same argument and raised
GenIdle ==
    [pc |-> "idle", ver |-> 0, input |-> << >>, seeds |-> ZeroState,
     state |-> ZeroState, start |-> ZeroState, buf |-> NoMatrix, attempts |-> 0,
     rank |-> -1, retry |-> FALSE,
     checked |-> NoMatrix, result |-> NoMatrix, error |-> "none"]

(***************************************************************************)
(* generate_matrix                                                         *)
(***************************************************************************)
\* v3 lines 180-183 with one cell skipped: result[63, 63] is left at zero
CopyToNumpy_short(matrix_c) ==
    [i \in Rows |-> [j \in Rows |->
        IF i = Size - 1 /\ j = Size - 1 THEN 0 ELSE matrix_c[i * Size + j]]]

\* v3: result = np.zeros((64, 64)); result[i, j] = matrix_c[i * 64 + j]
CopyToNumpy(matrix_c) ==
    [i \in Rows |-> [j \in Rows |-> matrix_c[i * Size + j]]]

\* v3 generate_matrix up to the loop: seeds, malloc (which may return NULL)
generate_matrix_v3(pre_pow_hash) ==
    /\ gen.pc # "loop"
    /\ \E ok \in BOOLEAN, block \in {freed, GarbageC} :
         gen' = IF ok
                THEN [GenIdle EXCEPT !.pc = "loop", !.ver = 3, !.input = pre_pow_hash,
                                     !.seeds = SeedsOf(pre_pow_hash),
                                     !.state = SeedsOf(pre_pow_hash), !.buf = block,
                                     !.retry = (gen.pc = "error" /\ gen.ver = 3
                                                /\ gen.input = pre_pow_hash)]
                ELSE [GenIdle EXCEPT !.pc = "error", !.ver = 3, !.input = pre_pow_hash,
                                     !.seeds = SeedsOf(pre_pow_hash),
                                     !.error = "MemoryError"]
    /\ UNCHANGED <<freed, stack, last, tgt, rngs, fill, quant, elim, bot, heap>>

\* one pass of generate_matrix_c's while True; on rank 64 the rest of
\* generate_matrix: copy to the NumPy result, free(matrix_c), return
generate_matrix_c ==
    /\ gen.pc = "loop" /\ gen.ver = 3
    /\ LET f  == FillC(gen.state, gen.buf, 0)
           rk == compute_rank_c(f.matrix)
           g  == [gen EXCEPT !.start = gen.state, !.state = f.state, !.buf = f.matrix,
                             !.checked = f.matrix,
                             !.rank = rk, !.attempts = Min(@ + 1, MaxAttempts)]
       IN  IF rk = Size
           THEN /\ gen' = [g EXCEPT !.pc = "done", !.result = CopyToNumpy(f.matrix)]
                /\ freed' = f.matrix
           ELSE /\ gen' = g
                /\ UNCHANGED freed
    /\ UNCHANGED <<stack, last, tgt, rngs, fill, quant, elim, bot, heap>>

\* v2 generate_matrix up to the loop
generate_matrix_v2(pre_pow_hash) ==
    /\ gen.pc # "loop"
    /\ gen' = [GenIdle EXCEPT !.pc = "loop", !.ver = 2, !.input = pre_pow_hash,
                              !.seeds = SeedsOf(pre_pow_hash),
                              !.state = SeedsOf(pre_pow_hash)]
    /\ UNCHANGED <<freed, stack, last, tgt, rngs, fill, quant, elim, bot, heap>>

\* the v2 pass handing its array out before the rank check
generate_matrix_v2_loop_early ==
    /\ gen.pc = "loop" /\ gen.ver = 2
    /\ LET f  == Fill2D(gen.state, ZeroMatrix, 0)
           rk == compute_rank(f.matrix)
           g  == [gen EXCEPT !.start = gen.state, !.state = f.state, !.buf = f.matrix,
                             !.checked = f.matrix, !.result = f.matrix,
                             !.rank = rk, !.attempts = Min(@ + 1, MaxAttempts)]
       IN  gen' = IF rk = Size THEN [g EXCEPT !.pc = "done"] ELSE g
    /\ UNCHANGED <<freed, stack, last, tgt, rngs, fill, quant, elim, bot, heap>>

\* the v2 pass building its rng object from the digest seeds again
generate_matrix_v2_loop_reseed ==
    /\ gen.pc = "loop" /\ gen.ver = 2
    /\ LET f  == Fill2D(gen.seeds, ZeroMatrix, 0)
           rk == compute_rank(f.matrix)
           g  == [gen EXCEPT !.start = gen.seeds, !.state = f.state, !.buf = f.matrix,
                             !.checked = f.matrix,
                             !.rank = rk, !.attempts = Min(@ + 1, MaxAttempts)]
       IN  gen' = IF rk = Size THEN [g EXCEPT !.pc = "done", !.result = f.matrix] ELSE g
    /\ UNCHANGED <<freed, stack, last, tgt, rngs, fill, quant, elim, bot, heap>>

\* one pass of v2's while True: a new rng object from s0..s3, a new zero
\* array, fill, rank; return the array or copy the rng fields to s0..s3
generate_matrix_v2_loop ==
    /\ gen.pc = "loop" /\ gen.ver = 2
    /\ LET f  == Fill2D(gen.state, ZeroMatrix, 0)
           rk == compute_rank(f.matrix)
           g  == [gen EXCEPT !.start = gen.state, !.state = f.state, !.buf = f.matrix,
                             !.checked = f.matrix,
                             !.rank = rk, !.attempts = Min(@ + 1, MaxAttempts)]
       IN  gen' = IF rk = Size THEN [g EXCEPT !.pc = "done", !.result = f.matrix] ELSE g
    /\ UNCHANGED <<freed, stack, last, tgt, rngs, fill, quant, elim, bot, heap>>

\* v1 generate_matrix up to the loop: the zero array the loop writes into
generate_matrix_v1(s0123) ==
    /\ gen.pc # "loop"
    /\ gen' = [GenIdle EXCEPT !.pc = "loop", !.ver = 1, !.input = s0123,
                              !.seeds = s0123, !.state = s0123, !.buf = ZeroMatrix]
    /\ UNCHANGED <<freed, stack, last, tgt, rngs, fill, quant, elim, bot, heap>>

\* one pass of generate_matrix_internal's while True, writing over
\* out_matrix; on rank 64 generate_matrix returns np.asarray(matrix)
generate_matrix_internal ==
    /\ gen.pc = "loop" /\ gen.ver = 1
    /\ LET f  == Fill2D(gen.state, gen.buf, 0)
           rk == compute_rank(f.matrix)
           g  == [gen EXCEPT !.start = gen.state, !.state = f.state, !.buf = f.matrix,
                             !.checked = f.matrix,
                             !.rank = rk, !.attempts = Min(@ + 1, MaxAttempts)]
       IN  gen' = IF rk = Size THEN [g EXCEPT !.pc = "done", !.result = f.matrix] ELSE g
    /\ UNCHANGED <<freed, stack, last, tgt, rngs, fill, quant, elim, bot, heap>>

(***************************************************************************)
(* cSHAKE256 (pycryptodome), taken as a fixed function of (data, custom):  *)
(* a mixing function stands for it.  The customization string seeds the    *)
(* accumulator and is separated from the data absorbed after it.           *)
(***************************************************************************)


\* the accumulator after the bytes data[lo..hi], absorbed in order, each by
\* acc -> (acc * 33 + byte + 1) % 65521; the range is halved so that the
\* evaluation stays shallow
RECURSIVE Absorb(_, _, _, _)
Absorb(acc, data, lo, hi) ==
    IF lo > hi THEN acc
    ELSE IF lo = hi THEN (acc * 33 + data[lo] + 1) % 65521
    ELSE LET mid  == (lo + hi) \div 2
             left == Absorb(acc, data, lo, mid)
         IN  IF left >= 0 THEN Absorb(left, data, mid + 1, hi) ELSE left

\* cSHAKE256.new(data=data, custom=custom).read(n)
cSHAKE256(data, custom, n) ==
    LET a0 == Absorb(5381, custom, 1, Len(custom))
        a1 == Absorb((a0 * 33 + 257) % 65521, data, 1, Len(data))
    IN  [k \in 1..n |-> ((a1 + 31 * k) * (k + 7) + (a1 \div 256)) % 256]

\* b"ProofOfWorkHash" and b"HeavyHash"
TagProofOfWorkHash == <<80, 114, 111, 111, 102, 79, 102, 87, 111, 114, 107, 72, 97, 115, 104>>
TagHeavyHash == <<72, 101, 97, 118, 121, 72, 97, 115, 104>>

(***************************************************************************)
(* Header                                                                  *)
(***************************************************************************)
\* struct.pack('>Q', w): the eight bytes most significant first
PackQ_be(w) == [n \in 1..8 |-> ByteOf(w, 8 - n)]

\* the v2/v3 header with timestamp and nonce packed big-endian
Header_be(pre_pow_hash, timestamp, nonce) ==
    pre_pow_hash \o PackQ_be(timestamp) \o Zeros(PadLen) \o PackQ_be(nonce)

\* v2, v3: pre_pow_hash + struct.pack('<Q', timestamp) + b'\x00' * 32
\*         + struct.pack('<Q', nonce)
Header(pre_pow_hash, timestamp, nonce) ==
    pre_pow_hash \o PackQ(timestamp) \o Zeros(PadLen) \o PackQ(nonce)

\* v1: bytearray(80) written byte by byte from the four digest words,
\* the timestamp and the nonce
HeaderV1(hash_values, timestamp, nonce) ==
    [n \in 1..80 |->
        LET o == n - 1
        IN  IF o < 32 THEN ByteOf(hash_values[o \div 8], o % 8)
            ELSE IF o < 40 THEN ByteOf(timestamp, o - 32)
            ELSE IF o < 72 THEN 0
            ELSE ByteOf(nonce, o - 72)]

(***************************************************************************)
(* HeavyHash core                                                          *)
(***************************************************************************)
HashIx == 0..(HashLen - 1)

\* a ^ b on bytes
ByteXor(a, b) ==
    LET x(k) == ((Bit(a, k) + Bit(b, k)) % 2) * Pow2(k)
    IN  x(0) + x(1) + x(2) + x(3) + x(4) + x(5) + x(6) + x(7)

\* the unpacking with the low nibble of each byte first
NibbleVector_low_first(h) ==
    [n \in Rows |-> IF n % 2 = 0 THEN h[n \div 2] % 16 ELSE (h[n \div 2] \div 16) % 16]

\* v[2i] = (h[i] >> 4) & 0x0F; v[2i + 1] = h[i] & 0x0F, h a C array
NibbleVector(h) ==
    [n \in Rows |-> IF n % 2 = 0 THEN (h[n \div 2] \div 16) % 16 ELSE h[n \div 2] % 16]

RECURSIVE RowSum(_, _, _, _)
RowSum(row, v, j, s) ==
    IF j >= Size THEN s
    ELSE LET t == s + row[j] * v[j]
         IN  IF t >= 0 THEN RowSum(row, v, j + 1, t) ELSE t

\* p[i] = (s >> 10) & 0x0F for the row whose cells are row[0..63]
Quantize(row, v) == (RowSum(row, v, 0, 0) \div Pow2(QuantShift)) % 16

\* byte i of the XOR step
XorByte(h, p, i) == ByteXor(h[i], (p[2 * i] % 16) * 16 + (p[2 * i + 1] % 16))

\* heavy_hash_core whose last loop stops one byte early: the last byte of
\* digest keeps what the array held before the call
heavy_hash_core_short(matrix, pow_hash, digest) ==
    LET v == NibbleVector(pow_hash)
        p == [i \in Rows |-> Quantize([j \in Rows |-> matrix[i * Size + j]], v)]
    IN  [i \in HashIx |-> IF i < HashLen - 1 THEN XorByte(pow_hash, p, i) ELSE digest[i]]

\* v3 heavy_hash_core(matrix, pow_hash, digest): the contents of digest
\* after the call; matrix and pow_hash are only read
heavy_hash_core(matrix, pow_hash, digest) ==
    LET v == NibbleVector(pow_hash)
        p == [i \in Rows |-> Quantize([j \in Rows |-> matrix[i * Size + j]], v)]
    IN  [i \in HashIx |-> XorByte(pow_hash, p, i)]

\* a C array holding the first HashLen bytes of a bytes object
ToCArray(b) == [i \in HashIx |-> b[i + 1]]

\* bytes(a[i] for i in range(32))
ToBytes(a) == [n \in 1..HashLen |-> a[n - 1]]

\* heavy_hash_with_matrix forming the products in place
\* (matrix[i, j] *= v[j]): the caller's array holds them after the call
heavy_hash_with_matrix_inplace(matrix, pow_hash) ==
    LET header_arr == ToCArray(pow_hash)
        v == NibbleVector(header_arr)
        p == [i \in Rows |-> Quantize(matrix[i], v)]
        digest == [n \in 1..HashLen |-> XorByte(header_arr, p, n - 1)]
    IN  [digest |-> digest, result |-> cSHAKE256(digest, TagHeavyHash, OutLen),
         matrix |-> [i \in Rows |-> [j \in Rows |-> (matrix[i][j] * v[j]) % 65536]]]

\* v2 heavy_hash_with_matrix(matrix, pow_hash): new zero arrays v, p and
\* digest on every call; the digest hashed, the bytes returned and the
\* caller's array as the call leaves it (matrix[i, j] is only read)
heavy_hash_with_matrix(matrix, pow_hash) ==
    LET header_arr == ToCArray(pow_hash)
        v == NibbleVector(header_arr)
        p == [i \in Rows |-> Quantize(matrix[i], v)]
        digest == [n \in 1..HashLen |-> XorByte(header_arr, p, n - 1)]
    IN  [digest |-> digest, result |-> cSHAKE256(digest, TagHeavyHash, OutLen),
         matrix |-> matrix]

Pass(data, custom) == [data |-> data, custom |-> custom]
\* what a call that raised returns, and the NULL pointer
NoResult == <<-1>>
Null == << >>

\* the copy loop reading matrix[j, i]
CopyToC_transposed(block, matrix) ==
    [c \in Cells |-> IF (c \div Size) \in Rows THEN matrix[c % Size][c \div Size] ELSE block[c]]

\* for i in range(64): for j in range(64): matrix_c[i * 64 + j] = matrix[i, j]
\* written over whatever the block held
CopyToC(block, matrix) ==
    [c \in Cells |-> IF (c \div Size) \in Rows THEN matrix[c \div Size][c % Size] ELSE block[c]]

(***************************************************************************)
(* v1 heavyhash                                                            *)
(***************************************************************************)
\* the matrix generate_matrix_internal leaves in out_matrix when one of its
\* next n attempts reaches rank 64, NoMatrix when none of them does
RECURSIVE MatrixOf(_, _, _)

\* the attempt f is returned when its rank is 64; otherwise the loop goes
\* on from the state and the array it left
AttemptOrRetry(f, n) ==
    IF compute_rank(f.matrix) = Size THEN f.matrix
    ELSE MatrixOf(f.state, f.matrix, n - 1)

MatrixOf(state, out_matrix, n) ==
    IF n = 0 THEN NoMatrix
    ELSE AttemptOrRetry(Fill2D(state, out_matrix, 0), n)

\* result[::-1]
Reversed(b) == [n \in 1..Len(b) |-> b[Len(b) + 1 - n]]

\* heavyhash returning the bytes of the final pass as squeezed
heavyhash_unreversed(hash_values, timestamp, nonce) ==
    LET mat    == MatrixOf(hash_values, ZeroMatrix, MaxAttempts)
        header == HeaderV1(hash_values, timestamp, nonce)
        first  == ToCArray(cSHAKE256(header, TagProofOfWorkHash, HashLen))
        v      == NibbleVector(first)
        p      == [i \in Rows |-> (RowSum(mat[i], v, 0, 0) \div Pow2(QuantShift)) % 65536]
        digest == [n \in 1..HashLen |-> XorByte(first, p, n - 1)]
    IN  IF mat = NoMatrix
        THEN [returns |-> FALSE, error |-> "none", result |-> NoResult, hashed |-> << >>]
        ELSE [returns |-> TRUE, error |-> "none",
              result |-> cSHAKE256(digest, TagHeavyHash, OutLen),
              hashed |-> <<Pass(header, TagProofOfWorkHash), Pass(digest, TagHeavyHash)>>]

\* v1 heavyhash(hash_values, timestamp, nonce): whether the call gets past
\* the generation of its matrix, what it hashes and what it returns
heavyhash(hash_values, timestamp, nonce) ==
    LET mat    == MatrixOf(hash_values, ZeroMatrix, MaxAttempts)
        header == HeaderV1(hash_values, timestamp, nonce)
        first  == ToCArray(cSHAKE256(header, TagProofOfWorkHash, HashLen))
        v      == NibbleVector(first)
        p      == [i \in Rows |-> (RowSum(mat[i], v, 0, 0) \div Pow2(QuantShift)) % 65536]
        digest == [n \in 1..HashLen |-> XorByte(first, p, n - 1)]
    IN  IF mat = NoMatrix
        THEN [returns |-> FALSE, error |-> "none", result |-> NoResult, hashed |-> << >>]
        ELSE [returns |-> TRUE, error |-> "none",
              result |-> Reversed(cSHAKE256(digest, TagHeavyHash, OutLen)),
              hashed |-> <<Pass(header, TagProofOfWorkHash), Pass(digest, TagHeavyHash)>>]

(***************************************************************************)
(* compute_pow                                                             *)
(***************************************************************************)
\* v2 compute_pow: what the call hashes and returns
compute_pow_v2_run(pre_pow_hash, timestamp, nonce, matrix) ==
    LET data     == Header(pre_pow_hash, timestamp, nonce)
        pow_hash == cSHAKE256(data, TagProofOfWorkHash, HashLen)
        hh       == heavy_hash_with_matrix(matrix, pow_hash)
    IN  [error |-> "none", result |-> hh.result,
         hashed |-> <<Pass(data, TagProofOfWorkHash), Pass(hh.digest, TagHeavyHash)>>,
         matrix |-> hh.matrix]

\* v3 compute_pow with the two customization strings exchanged
compute_pow_v3_run_swapped(pre_pow_hash, timestamp, nonce, matrix, block, frame) ==
    LET data     == Header(pre_pow_hash, timestamp, nonce)
        pow_hash == cSHAKE256(data, TagHeavyHash, HashLen)
        matrix_c == CopyToC(block, matrix)
        pow_hash_c == ToCArray(pow_hash)
        digest_c == heavy_hash_core(matrix_c, pow_hash_c, frame.digest_c)
        digest   == ToBytes(digest_c)
    IN  IF block = Null
        THEN [error |-> "MemoryError", result |-> NoResult,
              hashed |-> <<Pass(data, TagHeavyHash)>>,
              stack |-> frame, freed |-> block, matrix |-> matrix]
        ELSE [error |-> "none", result |-> cSHAKE256(digest, TagProofOfWorkHash, OutLen),
              hashed |-> <<Pass(data, TagHeavyHash), Pass(digest, TagProofOfWorkHash)>>,
              stack |-> [pow_hash_c |-> pow_hash_c, digest_c |-> digest_c],
              freed |-> matrix_c, matrix |-> matrix]

\* v3 compute_pow.  block is what malloc returned (Null, or the block with
\* the contents it happens to hold), frame the contents the stack arrays
\* pow_hash_c and digest_c happen to hold on entry.  The caller's array
\* (matrix) is read by the copy loop and by nothing else.
compute_pow_v3_run(pre_pow_hash, timestamp, nonce, matrix, block, frame) ==
    LET data     == Header(pre_pow_hash, timestamp, nonce)
        pow_hash == cSHAKE256(data, TagProofOfWorkHash, HashLen)
        matrix_c == CopyToC(block, matrix)
        pow_hash_c == ToCArray(pow_hash)
        digest_c == heavy_hash_core(matrix_c, pow_hash_c, frame.digest_c)
        digest   == ToBytes(digest_c)
    IN  IF block = Null
        THEN [error |-> "MemoryError", result |-> NoResult,
              hashed |-> <<Pass(data, TagProofOfWorkHash)>>,
              stack |-> frame, freed |-> block, matrix |-> matrix]
        ELSE [error |-> "none", result |-> cSHAKE256(digest, TagHeavyHash, OutLen),
              hashed |-> <<Pass(data, TagProofOfWorkHash), Pass(digest, TagHeavyHash)>>,
              stack |-> [pow_hash_c |-> pow_hash_c, digest_c |-> digest_c],
              freed |-> matrix_c, matrix |-> matrix]

(***************************************************************************)
(* compute_pow_batch (v3)                                                  *)
(***************************************************************************)
\* the batch loop copying pow_hash into pow_hash_c for the first nonce only
RECURSIVE BatchLoop_stale(_, _, _, _, _, _, _, _)
BatchLoop_stale(pre_pow_hash, timestamp, nonces, matrix_c, k, frame, results, hashed) ==
    IF k > Len(nonces)
    THEN [error |-> "none", result |-> results, hashed |-> hashed,
          stack |-> frame, freed |-> matrix_c]
    ELSE LET data       == Header(pre_pow_hash, timestamp, nonces[k])
             pow_hash   == cSHAKE256(data, TagProofOfWorkHash, HashLen)
             pow_hash_c == IF k = 1 THEN ToCArray(pow_hash) ELSE frame.pow_hash_c
             digest_c   == heavy_hash_core(matrix_c, pow_hash_c, frame.digest_c)
             digest     == ToBytes(digest_c)
         IN  BatchLoop_stale(pre_pow_hash, timestamp, nonces, matrix_c, k + 1,
                       [pow_hash_c |-> pow_hash_c, digest_c |-> digest_c],
                       Append(results, <<nonces[k], cSHAKE256(digest, TagHeavyHash, OutLen)>>),
                       hashed \o <<Pass(data, TagProofOfWorkHash), Pass(digest, TagHeavyHash)>>)

\* for nonce in nonces: from element k on, with pow_hash_c and digest_c
\* (frame) carried from one pass of the loop to the next
RECURSIVE BatchLoop(_, _, _, _, _, _, _, _)
BatchLoop(pre_pow_hash, timestamp, nonces, matrix_c, k, frame, results, hashed) ==
    IF k > Len(nonces)
    THEN [error |-> "none", result |-> results, hashed |-> hashed,
          stack |-> frame, freed |-> matrix_c]
    ELSE LET data       == Header(pre_pow_hash, timestamp, nonces[k])
             pow_hash   == cSHAKE256(data, TagProofOfWorkHash, HashLen)
             pow_hash_c == ToCArray(pow_hash)
             digest_c   == heavy_hash_core(matrix_c, pow_hash_c, frame.digest_c)
             digest     == ToBytes(digest_c)
         IN  BatchLoop(pre_pow_hash, timestamp, nonces, matrix_c, k + 1,
                       [pow_hash_c |-> pow_hash_c, digest_c |-> digest_c],
                       Append(results, <<nonces[k], cSHAKE256(digest, TagHeavyHash, OutLen)>>),
                       hashed \o <<Pass(data, TagProofOfWorkHash), Pass(digest, TagHeavyHash)>>)

\* compute_pow_batch returning the list built so far when malloc fails
compute_pow_batch_run_swallow(pre_pow_hash, timestamp, nonces, matrix, block, frame) ==
    IF block = Null
    THEN [error |-> "none", result |-> << >>, hashed |-> << >>,
          stack |-> frame, freed |-> block, matrix |-> matrix]
    ELSE BatchLoop(pre_pow_hash, timestamp, nonces, CopyToC(block, matrix), 1, frame,
                   << >>, << >>) @@ [matrix |-> matrix]

\* v3 compute_pow_batch: malloc, copy the matrix, the loop, free; the loop
\* works on matrix_c, the caller's array is read by the copy only
compute_pow_batch_run(pre_pow_hash, timestamp, nonces, matrix, block, frame) ==
    IF block = Null
    THEN [error |-> "MemoryError", result |-> NoResult, hashed |-> << >>,
          stack |-> frame, freed |-> block, matrix |-> matrix]
    ELSE BatchLoop(pre_pow_hash, timestamp, nonces, CopyToC(block, matrix), 1, frame,
                   << >>, << >>) @@ [matrix |-> matrix]

(***************************************************************************)
(* Hash calls                                                              *)
(***************************************************************************)
\* timestamps and nonces (uint64_t)
T1 == FromBytesLE(<<1, 2, 3, 4, 5, 6, 7, 8>>)
N1 == FromBytesLE(<<255, 0, 0, 0, 0, 0, 0, 128>>)
N2 == FromBytesLE(<<2>>)

\* a caller's uint16 matrix with cells beyond the nibble range, and the
\* matrix the first attempt for DFull fills
MatrixA == [i \in Rows |-> [j \in Rows |-> 1024 * (i + 1) + 16 * j + 5]]
MatrixB == CopyToNumpy(FillC(SeedsOf(DFull), GarbageC, 0).matrix)

\* (pre_pow_hash, timestamp, nonce, matrix) of the single calls
PowArgs == {<<DZero, ZeroWord, ZeroWord, MatrixB>>, <<DFull, T1, N1, MatrixA>>,
            <<DFull, T1, N2, MatrixA>>, <<DFull, T1, N1, MatrixB>>,
            <<DShort, T1, N1, MatrixA>>}

\* (pre_pow_hash, timestamp, matrix) and the nonce lists of the batch calls
BatchArgs == {<<DFull, T1, MatrixA>>}
NonceLists == {<< >>, <<N1>>, <<N1, N2>>, <<N2, N1>>, <<N1, N1>>}

StackInit == [pow_hash_c |-> [i \in HashIx |-> 0], digest_c |-> [i \in HashIx |-> 0]]
StackGarbage == [pow_hash_c |-> [i \in HashIx |-> 170], digest_c |-> [i \in HashIx |-> 85]]

\* what the uninitialised memory of a v3 call may hold: what earlier calls
\* left there or anything else; malloc may also fail
Uninit ==
    {[kind |-> "stale", block |-> freed, frame |-> stack],
     [kind |-> "fresh", block |-> GarbageC, frame |-> StackGarbage],
     [kind |-> "null", block |-> Null, frame |-> stack]}

SameCall(rec, fn, ver, pre_pow_hash, timestamp, nonces, matrix) ==
    /\ rec.fn = fn
    /\ rec.ver = ver
    /\ rec.pre_pow_hash = pre_pow_hash
    /\ rec.timestamp = timestamp
    /\ rec.nonces = nonces
    /\ rec.matrix = matrix

\* the record of a call: its arguments, what it hashed, what it returned,
\* what the caller's matrix holds when the call is over (after), when the
\* call before it was the same call with the same arguments and returned,
\* what that one returned (before), and whether the call before it was the
\* same call with the same arguments and raised (retry)
CallRecord(fn, ver, pre_pow_hash, timestamp, nonces, matrix, uninit, out) ==
    [fn |-> fn, ver |-> ver, pre_pow_hash |-> pre_pow_hash, timestamp |-> timestamp,
     nonces |-> nonces, matrix |-> matrix, uninit |-> uninit,
     error |-> out.error, result |-> out.result, hashed |-> out.hashed,
     after |-> out.matrix,
     before |-> IF /\ SameCall(last, fn, ver, pre_pow_hash, timestamp, nonces, matrix)
                   /\ last.error = "none"
                THEN last.result ELSE NoResult,
     retry |-> /\ SameCall(last, fn, ver, pre_pow_hash, timestamp, nonces, matrix)
               /\ last.error # "none"]

compute_pow_v2(a) ==
    /\ LET out == compute_pow_v2_run(a[1], a[2], a[3], a[4])
       IN  last' = CallRecord("compute_pow", 2, a[1], a[2], <<a[3]>>, a[4], "none", out)
    /\ UNCHANGED <<gen, freed, stack, tgt, rngs, fill, quant, elim, bot, heap>>

compute_pow_v3(a) ==
    /\ \E u \in Uninit :
         LET out == compute_pow_v3_run(a[1], a[2], a[3], a[4], u.block, u.frame)
         IN  /\ last' = CallRecord("compute_pow", 3, a[1], a[2], <<a[3]>>, a[4], u.kind, out)
             /\ stack' = out.stack
             /\ freed' = IF out.error = "none" THEN out.freed ELSE freed
    /\ UNCHANGED <<gen, tgt, rngs, fill, quant, elim, bot, heap>>

compute_pow_batch(a, nonces) ==
    /\ \E u \in Uninit :
         LET out == compute_pow_batch_run(a[1], a[2], nonces, a[3], u.block, u.frame)
         IN  /\ last' = CallRecord("compute_pow_batch", 3, a[1], a[2], nonces, a[3], u.kind, out)
             /\ stack' = out.stack
             /\ freed' = IF out.error = "none" THEN out.freed ELSE freed
    /\ UNCHANGED <<gen, tgt, rngs, fill, quant, elim, bot, heap>>

\* (hash_values, timestamp, nonce) of the v1 calls
V1Args == {<<SeedsOf(DFull), T1, N1>>, <<SeedsOf(DFull), ZeroWord, N2>>,
           <<ZeroState, ZeroWord, ZeroWord>>}

\* the v1 calls set against v2: digests whose matrix takes one attempt and
\* two attempts, two timestamps, four nonces; and v2 calls on the matrix
\* generated for their digest
V1Seeds == {SeedsOf(DFull), SeedsOf(DOne)}
NonceOf(n) == FromBytesLE(<<n, n * n>>)
V1EqArgs == {<<s0123, ts, NonceOf(n)>> : s0123 \in V1Seeds, ts \in {ZeroWord, T1},
                                         n \in 0..3}
V2EqArgs == {<<d, ts, NonceOf(n), MatrixOf(SeedsOf(d), ZeroMatrix, MaxAttempts)>> :
                d \in {DFull, DOne}, ts \in {ZeroWord, T1}, n \in 0..9}

\* a v1 heavyhash / calculate_pow call that returns
calculate_pow(a) ==
    /\ LET out == heavyhash(a[1], a[2], a[3])
       IN  /\ out.returns
           /\ last' = CallRecord("calculate_pow", 1, a[1], a[2], <<a[3]>>, NoMatrix, "none",
                                 out @@ [matrix |-> NoMatrix])
    /\ UNCHANGED <<gen, freed, stack, tgt, rngs, fill, quant, elim, bot, heap>>

(***************************************************************************)
(* Target decoding and comparison.  A Python int (unbounded, >= 0) is the  *)
(* sequence of its binary digits, least significant first, without         *)
(* leading zero digits; 0 is the empty sequence.                           *)
(***************************************************************************)
RECURSIVE BitLen(_)
BitLen(n) == IF n = 0 THEN 0 ELSE 1 + BitLen(n \div 2)

\* the Python int with the value of the small integer n
BigOf(n) == [i \in 1..BitLen(n) |-> Bit(n, i - 1)]

\* x << n and x >> n on Python ints; a negative n raises ValueError
BigShl(x, n) ==
    IF n < 0 THEN [error |-> "ValueError", result |-> << >>]
    ELSE [error |-> "none",
          result |-> IF x = << >> THEN << >>
                     ELSE [i \in 1..(Len(x) + n) |-> IF i <= n THEN 0 ELSE x[i - n]]]

BigShr(x, n) ==
    IF n < 0 THEN [error |-> "ValueError", result |-> << >>]
    ELSE [error |-> "none",
          result |-> IF n >= Len(x) THEN << >>
                     ELSE [i \in 1..(Len(x) - n) |-> x[i + n]]]

\* x < y and x <= y on Python ints
BigLess(x, y) ==
    \/ Len(x) < Len(y)
    \/ /\ Len(x) = Len(y)
       /\ \E i \in 1..Len(x) :
            /\ x[i] < y[i]
            /\ \A j \in (i + 1)..Len(x) : x[j] = y[j]

BigLeq(x, y) == x = y \/ BigLess(x, y)

\* a 32-bit value, as its bits; (bits >> lo) & (2^width - 1) as an integer
Bits32 == 0..31

RECURSIVE Field(_, _, _)
Field(bits, lo, width) ==
    IF width = 0 THEN 0 ELSE bits[lo] + 2 * Field(bits, lo + 1, width - 1)

\* bits_to_target with the Bitcoin mask 0x007FFFFF for the coefficient
bits_to_target_mask(bits) ==
    LET exponent    == Field(bits, 24, 8)
        coefficient == Field(bits, 0, 23)
    IN  IF exponent <= 3
        THEN BigShr(BigOf(coefficient), 8 * (3 - exponent))
        ELSE BigShl(BigOf(coefficient), 8 * (exponent - 3))

\* bits_to_target shifting left in the branch for small exponents
bits_to_target_left(bits) ==
    LET exponent    == Field(bits, 24, 8)
        coefficient == Field(bits, 0, 24)
    IN  IF exponent <= 3
        THEN BigShl(BigOf(coefficient), 8 * (3 - exponent))
        ELSE BigShl(BigOf(coefficient), 8 * (exponent - 3))

\* bits_to_target(bits): exponent = (bits >> 24) & 0xFF,
\* coefficient = bits & 0x00FFFFFF, then the shift of either branch
bits_to_target(bits) ==
    LET exponent    == Field(bits, 24, 8)
        coefficient == Field(bits, 0, 24)
    IN  IF exponent <= 3
        THEN BigShr(BigOf(coefficient), 8 * (3 - exponent))
        ELSE BigShl(BigOf(coefficient), 8 * (exponent - 3))

\* a < b on Python bytes: the first position where they differ decides,
\* and a proper prefix is less
BytesLess(a, b) ==
    LET n    == Min(Len(a), Len(b))
        diff == {i \in 1..n : a[i] # b[i]}
    IN  IF diff = {} THEN Len(a) < Len(b)
        ELSE LET i == CHOOSE d \in diff : \A d2 \in diff : d <= d2
             IN  a[i] < b[i]

\* check_pow with <= for <
check_pow_v1_le(pow_hash, target) ==
    pow_hash = target \/ BytesLess(pow_hash, target)

\* v1 check_pow(pow_hash, target): return pow_hash < target
check_pow_v1(pow_hash, target) == BytesLess(pow_hash, target)

\* x < y on uint64_t: the highest bit where they differ is set in y
Less64(x, y) ==
    \E k \in BitIx : /\ x[k] = 0 /\ y[k] = 1
                     /\ \A m \in BitIx : m > k => x[m] = y[m]

\* int.from_bytes(b, 'big') stored in a uint64_t, for Len(b) = 8
FromBytesBE(b) == [k \in BitIx |-> Bit(b[8 - (k \div 8)], k % 8)]

\* check_pow reading the eight bytes as a big-endian integer
check_pow_v2_big(pow_hash, target) ==
    Less64(FromBytesBE(Slice(pow_hash, 0, 8)), target)

\* v2 check_pow(pow_hash, target):
\* hash_val = int.from_bytes(pow_hash[:8], 'little'); return hash_val < target
check_pow_v2(pow_hash, target) ==
    Less64(FromBytesLE(Slice(pow_hash, 0, 8)), target)

\* the 32-bit value with top byte e and low 24 bits c
BitsOf(e, c) == [k \in Bits32 |-> IF k < 24 THEN Bit(c, k) ELSE Bit(e, k - 24)]

Exponents == {0, 1, 2, 3, 4, 5, 32, 33, 254, 255}
Coefficients == {0, 1, 255, 256, 65535, 65536, 8388607, 8388608, 16777215}
BitsValues == {BitsOf(e, c) : e \in Exponents, c \in Coefficients}

\* 32-byte hashes and targets: the bytes that vary take the values 0, 1, 255
HashValues ==
    {<<t[1]>> \o Zeros(PrePowLen - CmpLen) \o SubSeq(t, 2, CmpLen) :
        t \in [1..CmpLen -> {0, 1, 255}]}

\* 32-byte hashes for v2: bytes 0 and 7 take the values 0, 1, 255, bytes 8
\* and 31 the values 0 and 255; 64-bit targets with the same low and high
\* bytes
HashValuesV2 ==
    {<<a>> \o Zeros(6) \o <<b, c>> \o Zeros(PrePowLen - 10) \o <<d>> :
        a \in {0, 1, 255}, b \in {0, 1, 255}, c \in {0, 255}, d \in {0, 255}}
TargetsV2 ==
    {FromBytesLE(<<a, 0, 0, 0, 0, 0, 0, b>>) : a \in {0, 1, 255}, b \in {0, 1, 255}}

TgtIdle ==
    [fn |-> "none", bits |-> BitsOf(0, 0), pow_hash |-> << >>, target |-> << >>,
     error |-> "none", result |-> << >>]

\* a call bits_to_target(bits)
DecodeTarget(bits) ==
    /\ LET out == bits_to_target(bits)
       IN  tgt' = [TgtIdle EXCEPT !.fn = "bits_to_target", !.bits = bits,
                                  !.error = out.error, !.result = out.result]
    /\ UNCHANGED <<gen, freed, stack, last, rngs, fill, quant, elim, bot, heap>>

\* a call check_pow(pow_hash, target) of v1
CheckPow(pow_hash, target) ==
    /\ tgt' = [TgtIdle EXCEPT !.fn = "check_pow", !.pow_hash = pow_hash,
                              !.target = target,
                              !.result = check_pow_v1(pow_hash, target)]
    /\ UNCHANGED <<gen, freed, stack, last, rngs, fill, quant, elim, bot, heap>>

\* a call check_pow(pow_hash, target) of v2
CheckPowV2(pow_hash, target) ==
    /\ tgt' = [TgtIdle EXCEPT !.fn = "check_pow_v2", !.pow_hash = pow_hash,
                              !.target = target,
                              !.result = check_pow_v2(pow_hash, target)]
    /\ UNCHANGED <<gen, freed, stack, last, rngs, fill, quant, elim, bot, heap>>

(***************************************************************************)
(* Generators on their own: Xoshiro256PlusPlus objects (v1, v2) and state  *)
(* arrays (v3), each with its own four words                               *)
(***************************************************************************)
RngIds == {1, 2}
RngSeeds == {SeedsOf(DFull), SeedsOf(DOne), ZeroState}

\* seed: the four words given at creation; prev, s: the state before and
\* after the last call; out: the words returned so far
NoRng == [kind |-> "none", seed |-> ZeroState, prev |-> ZeroState, s |-> ZeroState,
          out |-> << >>]

\* Xoshiro256PlusPlus(s0, s1, s2, s3), or a state array set to the seeds
NewRng(g, kind, s0123) ==
    /\ rngs' = [rngs EXCEPT ![g] = [kind |-> kind, seed |-> s0123, prev |-> s0123,
                                  s |-> s0123, out |-> << >>]]
    /\ UNCHANGED <<gen, freed, stack, last, tgt, fill, quant, elim, bot, heap>>

\* rng.next_uint64() / xoshiro_next(state) on generator g
next_uint64(g) ==
    /\ rngs[g].kind # "none"
    /\ Len(rngs[g].out) < MaxDraws
    /\ LET r == xoshiro_next(rngs[g].s)
       IN  rngs' = [rngs EXCEPT ![g] = [@ EXCEPT !.prev = rngs[g].s, !.s = r.s,
                                               !.out = Append(@, r.result)]]
    /\ UNCHANGED <<gen, freed, stack, last, tgt, fill, quant, elim, bot, heap>>

NextRng ==
    \/ \E g \in RngIds, kind \in {"object", "array"}, s0123 \in RngSeeds :
          NewRng(g, kind, s0123)
    \/ \E g \in RngIds : next_uint64(g)

(***************************************************************************)
(* The fill loop on its own, on a matrix wide enough for a row to take     *)
(* more than one word                                                      *)
(***************************************************************************)
\* the matrix of the fill specification: rows of two words each (four in
\* the source)
FillSize == 2 * NibblesPerWord
FillHeight == Size
FillRows == 0..(FillHeight - 1)
FillCols == 0..(FillSize - 1)
FillCells == 0..(FillHeight * FillSize - 1)
FillSeeds == {SeedsOf([n \in 1..PrePowLen |-> (a * n + 3) % 256]) : a \in 1..9}

\* a malloc'd block no call has written, and np.zeros((64, 64))
FillGarbage == [c \in FillCells |-> 65535 - c]
FillZeros == [i \in FillRows |-> [j \in FillCols |-> 0]]

\* start, state: the PRNG state before and after the last attempt; buf,
\* matrix: the array before and after it; n: the attempts made
FillIdle ==
    [ver |-> 0, start |-> ZeroState, state |-> ZeroState, buf |-> NoMatrix,
     matrix |-> NoMatrix, n |-> 0]

\* the seeds are in place and the array of the variant is allocated (v2
\* allocates inside the loop)
StartFill(ver, s0123) ==
    /\ fill' = [FillIdle EXCEPT !.ver = ver, !.start = s0123, !.state = s0123,
                                !.matrix = IF ver = 3 THEN FillGarbage
                                           ELSE IF ver = 1 THEN FillZeros
                                           ELSE NoMatrix]
    /\ UNCHANGED <<gen, freed, stack, last, tgt, rngs, quant, elim, bot, heap>>

\* the fill loops of one attempt: v3 on the block it keeps, v1 on the array
\* it keeps, v2 on a new zero array
FillAttempt ==
    /\ fill.ver # 0
    /\ fill.n < MaxAttempts
    /\ LET f == IF fill.ver = 3 THEN FillFlat(FillHeight, FillSize, fill.state, fill.matrix, 0)
                ELSE IF fill.ver = 1 THEN FillGrid(FillHeight, FillSize, fill.state, fill.matrix, 0)
                ELSE FillGrid(FillHeight, FillSize, fill.state, FillZeros, 0)
       IN  fill' = [fill EXCEPT !.start = fill.state, !.state = f.state,
                                !.buf = fill.matrix, !.matrix = f.matrix, !.n = @ + 1]
    /\ UNCHANGED <<gen, freed, stack, last, tgt, rngs, quant, elim, bot, heap>>

NextFill ==
    \/ \E ver \in 1..3, s0123 \in FillSeeds : StartFill(ver, s0123)
    \/ FillAttempt

(***************************************************************************)
(* One row of the matrix product, at the width of the source: 64 columns,  *)
(* a uint64_t accumulator, p[i] of 16 bits in v1 and masked to a nibble in *)
(* v2 and v3                                                               *)
(***************************************************************************)
QuantCols == 64
PBitsV1 == 16
QuantIx == 0..(QuantCols - 1)

\* rows of nibble cells and nibble vectors, the all-15 ones among them
QuantRows == {[j \in QuantIx |-> (a * j + b) % 16] : a \in {0, 1, 5}, b \in {0, 9, 15}}
QuantVecs == {[j \in QuantIx |-> (c * j + d) % 16] : c \in {0, 3}, d \in {0, 8, 15}}

\* the accumulator taking twice the product
Accumulate_doubled(s, cell, vj) == s + 2 * cell * vj

\* s += matrix[i, j] * v[j] on the uint64_t s: the sum before it is cut to
\* 64 bits
Accumulate(s, cell, vj) == s + cell * vj

\* the 64 bits of t that a uint64_t keeps
Cut64(t) == IF BitLen(t) <= WordBits THEN t ELSE t - Pow2(WordBits) * (t \div Pow2(WordBits))

\* v1 shifting by 8
PStore_v1_shift8(ver, s) ==
    IF ver = 1 THEN (s \div Pow2(8)) % Pow2(PBitsV1)
    ELSE (s \div Pow2(QuantShift)) % 16

\* v1: p[i] = (s >> 10) & 0xFFFF; v2, v3: p[i] = (s >> 10) & 0x0F
PStore(ver, s) ==
    IF ver = 1 THEN (s \div Pow2(QuantShift)) % Pow2(PBitsV1)
    ELSE (s \div Pow2(QuantShift)) % 16

\* the nibble of p[i] the XOR step uses: p[i] & 0x0F
DigestNibble(p) == p % 16

\* s: the accumulator; carry: an addition went past 64 bits; shifted:
\* s >> 10 before the mask; p: the value stored in p[i]; nib: the nibble of
\* it the XOR step used
QuantIdle ==
    [pc |-> "idle", ver |-> 0, row |-> << >>, v |-> << >>, j |-> 0, s |-> 0,
     carry |-> FALSE, shifted |-> 0, p |-> 0, nib |-> 0]

\* s = 0 for row i of the matrix and the vector v
QuantRow(ver, row, v) ==
    /\ quant.pc \in {"idle", "done"}
    /\ quant' = [QuantIdle EXCEPT !.pc = "sum", !.ver = ver, !.row = row, !.v = v]
    /\ UNCHANGED <<gen, freed, stack, last, tgt, rngs, fill, elim, bot, heap>>

\* one pass of for j in range(64)
QuantAdd ==
    /\ quant.pc = "sum" /\ quant.j < QuantCols
    /\ quant' = [quant EXCEPT
           !.s = Cut64(Accumulate(quant.s, quant.row[quant.j], quant.v[quant.j])),
           !.carry = @ \/ BitLen(Accumulate(quant.s, quant.row[quant.j],
                                            quant.v[quant.j])) > WordBits,
           !.j = @ + 1]
    /\ UNCHANGED <<gen, freed, stack, last, tgt, rngs, fill, elim, bot, heap>>

\* the store into p[i] after the inner loop, and the use of p[i] in the XOR
\* step
QuantStore ==
    /\ quant.pc = "sum" /\ quant.j = QuantCols
    /\ quant' = [quant EXCEPT !.pc = "done",
                              !.shifted = quant.s \div Pow2(QuantShift),
                              !.p = PStore(quant.ver, quant.s),
                              !.nib = DigestNibble(PStore(quant.ver, quant.s))]
    /\ UNCHANGED <<gen, freed, stack, last, tgt, rngs, fill, elim, bot, heap>>

NextQuant ==
    \/ \E ver \in 1..3, row \in QuantRows, v \in QuantVecs : QuantRow(ver, row, v)
    \/ QuantAdd
    \/ QuantStore

(***************************************************************************)
(* compute_rank one column at a time, on matrices of side Size + 1         *)
(***************************************************************************)
ElimSize == Size + 1
ElimRows == 0..(ElimSize - 1)

\* nibble matrices: the upper triangle of ones, and cells
\* (a * i * j + b * j + c * i + d) % 16
ElimMatrices ==
    {[i \in ElimRows |-> [j \in ElimRows |-> IF j >= i THEN 1 ELSE 0]]}
    \cup {[i \in ElimRows |-> [j \in ElimRows |-> (a * i * j + b * j + c * i + d) % 16]] :
             a \in 0..2, b \in 0..2, c \in 0..2, d \in 0..1}

\* i: the column the loop is at; pivot: the row chosen in the last pass,
\* size when it found none, -1 before the first pass; before, normal: the
\* float matrix before that pass and after its normalization;
\* selected_before: the flags before that pass
ElimIdle ==
    [pc |-> "idle", matrix |-> << >>, mat_float |-> << >>, row_selected |-> << >>,
     rank |-> 0, i |-> 0, pivot |-> -1, before |-> << >>, normal |-> << >>,
     selected_before |-> << >>, result |-> -1]

\* compute_rank(matrix) up to the elimination loop: the copy into
\* mat_float and the cleared flags
compute_rank_copy(matrix) ==
    /\ elim.pc \in {"idle", "done"}
    /\ elim' = [ElimIdle EXCEPT
           !.pc = "loop", !.matrix = matrix,
           !.mat_float = [i \in DOMAIN matrix |-> [j \in DOMAIN matrix |-> <<matrix[i][j], 1>>]],
           !.row_selected = [i \in DOMAIN matrix |-> FALSE]]
    /\ UNCHANGED <<gen, freed, stack, last, tgt, rngs, fill, quant, bot, heap>>

\* one pass of for i in range(size) that finds a pivot
compute_rank_pivot(j) ==
    /\ elim.pc = "loop" /\ elim.i < SizeOf(elim.mat_float)
    /\ j = FindPivot(elim.mat_float, elim.row_selected, elim.i, 0)
    /\ j # SizeOf(elim.mat_float)
    /\ elim' = [elim EXCEPT
           !.rank = @ + 1,
           !.row_selected = [@ EXCEPT ![j] = TRUE],
           !.mat_float = Eliminate(NormalizeRow(elim.mat_float, j, elim.i),
                                   elim.row_selected, j, elim.i),
           !.before = elim.mat_float,
           !.normal = NormalizeRow(elim.mat_float, j, elim.i),
           !.selected_before = elim.row_selected,
           !.pivot = j, !.i = @ + 1]
    /\ UNCHANGED <<gen, freed, stack, last, tgt, rngs, fill, quant, bot, heap>>

\* one pass that finds none: j == size
compute_rank_skip ==
    /\ elim.pc = "loop" /\ elim.i < SizeOf(elim.mat_float)
    /\ FindPivot(elim.mat_float, elim.row_selected, elim.i, 0) = SizeOf(elim.mat_float)
    /\ elim' = [elim EXCEPT !.before = elim.mat_float, !.normal = elim.mat_float,
                            !.selected_before = elim.row_selected,
                            !.pivot = SizeOf(elim.mat_float), !.i = @ + 1]
    /\ UNCHANGED <<gen, freed, stack, last, tgt, rngs, fill, quant, bot, heap>>

\* return rank
compute_rank_return ==
    /\ elim.pc = "loop" /\ elim.i = SizeOf(elim.mat_float)
    /\ elim' = [elim EXCEPT !.pc = "done", !.result = elim.rank]
    /\ UNCHANGED <<gen, freed, stack, last, tgt, rngs, fill, quant, bot, heap>>

NextElim ==
    \/ \E m \in ElimMatrices : compute_rank_copy(m)
    \/ \E j \in ElimRows : compute_rank_pivot(j)
    \/ compute_rank_skip
    \/ compute_rank_return

(***************************************************************************)
(* The bot processes, restart_with_test.sh and the watchdog                *)
(***************************************************************************)
Pids == 1..MaxStarts

\* the processes whose command line holds nami_kaspa_bot.py: what pgrep -f
\* prints and pkill -f signals
Running(status) == {p \in Pids : status[p] = "running"}

\* the pid the next nohup python3 nami_kaspa_bot.py & gets
NextPid(status) == CHOOSE p \in Pids : status[p] = "none" /\ \A q \in Pids : q < p => status[q] # "none"

\* status: of every pid, none | running | exited (on its own) | killed (by
\* pkill); by: who started it.  rs, the run of restart_with_test.sh: pc,
\* the steps taken in order, the outcome of the two gates, the exit status
\* (-1 while it runs), the bots that ran when it began.  wd, the run of
\* the watchdog: pc and the number of bots its pgrep found
ScriptIdle ==
    [pc |-> "idle", log |-> << >>, syntax_ok |-> FALSE, test_ok |-> FALSE,
     exit |-> -1, old |-> {}]
WatchdogIdle == [pc |-> "idle", seen |-> -1]
BotInit ==
    [status |-> [p \in Pids |-> IF p = 1 THEN "running" ELSE "none"],
     by     |-> [p \in Pids |-> IF p = 1 THEN "boot" ELSE "none"],
     rs     |-> ScriptIdle,
     wd     |-> WatchdogIdle]

\* a bot process ends on its own
BotExits(p) ==
    /\ bot.status[p] = "running"
    /\ bot' = [bot EXCEPT !.status[p] = "exited"]
    /\ UNCHANGED <<gen, freed, stack, last, tgt, rngs, fill, quant, elim, heap>>

\* restart_with_test.sh is run: set -e, cd, the banner
restart_begin ==
    /\ bot.rs.pc \in {"idle", "done", "failed"}
    /\ bot' = [bot EXCEPT !.rs = [ScriptIdle EXCEPT !.pc = "syntax",
                                                    !.old = Running(bot.status)]]
    /\ UNCHANGED <<gen, freed, stack, last, tgt, rngs, fill, quant, elim, heap>>

\* [1/4] python3 -m py_compile ...: under set -e a failure ends the script
\* with the status of the command
restart_syntax(ok) ==
    /\ bot.rs.pc = "syntax"
    /\ bot' = [bot EXCEPT !.rs.log = Append(@, "syntax"), !.rs.syntax_ok = ok,
                          !.rs.pc = IF ok THEN "test" ELSE "failed",
                          !.rs.exit = IF ok THEN -1 ELSE 1]
    /\ UNCHANGED <<gen, freed, stack, last, tgt, rngs, fill, quant, elim, heap>>

\* the test step going on to the stop step whatever the tests say
restart_test_ignored(ok) ==
    /\ bot.rs.pc = "test"
    /\ bot' = [bot EXCEPT !.rs.log = Append(@, "test"), !.rs.test_ok = ok,
                          !.rs.pc = "kill"]
    /\ UNCHANGED <<gen, freed, stack, last, tgt, rngs, fill, quant, elim, heap>>

\* [2/4] if python3 tests/test_summon.py "$@"; then ... else ... exit 1
restart_test(ok) ==
    /\ bot.rs.pc = "test"
    /\ bot' = [bot EXCEPT !.rs.log = Append(@, "test"), !.rs.test_ok = ok,
                          !.rs.pc = IF ok THEN "kill" ELSE "failed",
                          !.rs.exit = IF ok THEN -1 ELSE 1]
    /\ UNCHANGED <<gen, freed, stack, last, tgt, rngs, fill, quant, elim, heap>>

\* [3/4] pkill -f nami_kaspa_bot.py 2>/dev/null || true
restart_kill ==
    /\ bot.rs.pc = "kill"
    /\ bot' = [bot EXCEPT
           !.status = [p \in Pids |-> IF bot.status[p] = "running" THEN "killed"
                                      ELSE bot.status[p]],
           !.rs.log = Append(@, "kill"), !.rs.pc = "sleep"]
    /\ UNCHANGED <<gen, freed, stack, last, tgt, rngs, fill, quant, elim, heap>>

\* sleep 2 is over
restart_sleep ==
    /\ bot.rs.pc = "sleep"
    /\ bot' = [bot EXCEPT !.rs.pc = "start"]
    /\ UNCHANGED <<gen, freed, stack, last, tgt, rngs, fill, quant, elim, heap>>

\* [4/4] nohup python3 nami_kaspa_bot.py > /tmp/nami-kaspa-bot.log 2>&1 &
restart_start ==
    /\ bot.rs.pc = "start"
    /\ \E p \in Pids : bot.status[p] = "none"
    /\ bot' = [bot EXCEPT !.status[NextPid(bot.status)] = "running",
                          !.by[NextPid(bot.status)] = "script",
                          !.rs.log = Append(@, "start"), !.rs.pc = "check"]
    /\ UNCHANGED <<gen, freed, stack, last, tgt, rngs, fill, quant, elim, heap>>

\* sleep 3; if pgrep -f nami_kaspa_bot.py > /dev/null; then ... else exit 1
restart_check ==
    /\ bot.rs.pc = "check"
    /\ bot' = [bot EXCEPT
           !.rs.pc = IF Running(bot.status) # {} THEN "done" ELSE "failed",
           !.rs.exit = IF Running(bot.status) # {} THEN 0 ELSE 1]
    /\ UNCHANGED <<gen, freed, stack, last, tgt, rngs, fill, quant, elim, heap>>

\* a run of the watchdog: if ! pgrep -f "nami_kaspa_bot.py" > /dev/null
check_and_restart ==
    /\ bot.wd.pc = "idle"
    /\ bot' = [bot EXCEPT !.wd.seen = Cardinality(Running(bot.status)),
                          !.wd.pc = IF Running(bot.status) = {} THEN "restart"
                                    ELSE "idle"]
    /\ UNCHANGED <<gen, freed, stack, last, tgt, rngs, fill, quant, elim, heap>>

\* the body of the if: the log line, cd "$BOT_DIR",
\* nohup python3 nami_kaspa_bot.py >> "$LOG_FILE" 2>&1 &
check_and_restart_start ==
    /\ bot.wd.pc = "restart"
    /\ \E p \in Pids : bot.status[p] = "none"
    /\ bot' = [bot EXCEPT !.status[NextPid(bot.status)] = "running",
                          !.by[NextPid(bot.status)] = "watchdog",
                          !.wd.pc = "idle"]
    /\ UNCHANGED <<gen, freed, stack, last, tgt, rngs, fill, quant, elim, heap>>

NextBot ==
    \/ \E p \in Pids : BotExits(p)
    \/ restart_begin
    \/ \E ok \in BOOLEAN : restart_syntax(ok)
    \/ \E ok \in BOOLEAN : restart_test(ok)
    \/ restart_kill
    \/ restart_sleep
    \/ restart_start
    \/ restart_check
    \/ check_and_restart
    \/ check_and_restart_start


(***************************************************************************)
(* The matrix_c buffer of the v3 calls: malloc, the try block, finally     *)
(***************************************************************************)
HeapFns == {"generate_matrix", "compute_pow", "compute_pow_batch"}

Step(name, touches, raises) == [name |-> name, touches |-> touches, raises |-> raises]

\* the statements of the try block in order: whether each reads or writes
\* matrix_c and whether it can raise (the nogil calls cannot)
TryBlock(fn, n) ==
    IF fn = "generate_matrix"
    THEN <<Step("generate_matrix_c", TRUE, FALSE), Step("np.zeros", FALSE, TRUE),
           Step("copy", TRUE, FALSE)>>
    ELSE IF fn = "compute_pow"
    THEN <<Step("copy", TRUE, TRUE), Step("pow_hash_c", FALSE, TRUE),
           Step("heavy_hash_core", TRUE, FALSE), Step("cSHAKE256", FALSE, TRUE)>>
    ELSE <<Step("copy", TRUE, TRUE)>>
         \o [k \in 1..(3 * n) |->
                IF k % 3 = 1 THEN Step("nonce", FALSE, TRUE)
                ELSE IF k % 3 = 2 THEN Step("heavy_hash_core", TRUE, FALSE)
                ELSE Step("append", FALSE, TRUE)]

\* ptr: unset | null | live | freed; frees: calls of free(matrix_c);
\* uses: reads or writes of the live buffer; stray: reads or writes of a
\* buffer that is not live; at: statements of the try block done
HeapIdle ==
    [pc |-> "idle", fn |-> "none", n |-> 0, ptr |-> "unset", frees |-> 0,
     uses |-> 0, stray |-> 0, at |-> 0, exc |-> "none", out |-> "none"]

\* a v3 call begins; a batch has n nonces
heap_call(fn, n) ==
    /\ heap.pc \in {"idle", "exit"}
    /\ heap' = [HeapIdle EXCEPT !.pc = "malloc", !.fn = fn, !.n = n]
    /\ UNCHANGED <<gen, freed, stack, last, tgt, rngs, fill, quant, elim, bot>>

\* matrix_c = malloc(...); if matrix_c == NULL: raise MemoryError(...)
heap_malloc(ok) ==
    /\ heap.pc = "malloc"
    /\ heap' = IF ok THEN [heap EXCEPT !.pc = "try", !.ptr = "live"]
               ELSE [heap EXCEPT !.pc = "exit", !.ptr = "null",
                                 !.exc = "MemoryError", !.out = "raised"]
    /\ UNCHANGED <<gen, freed, stack, last, tgt, rngs, fill, quant, elim, bot>>

\* the next statement of the try block, which raises or completes
heap_try(raise) ==
    /\ heap.pc = "try" /\ heap.at < Len(TryBlock(heap.fn, heap.n))
    /\ raise => TryBlock(heap.fn, heap.n)[heap.at + 1].raises
    /\ heap' = IF raise
               THEN [heap EXCEPT !.pc = "finally", !.exc = "Exception"]
               ELSE [heap EXCEPT
                        !.at = @ + 1,
                        !.uses = IF TryBlock(heap.fn, heap.n)[heap.at + 1].touches
                                    /\ heap.ptr = "live" THEN @ + 1 ELSE @,
                        !.stray = IF TryBlock(heap.fn, heap.n)[heap.at + 1].touches
                                     /\ heap.ptr # "live" THEN @ + 1 ELSE @]
    /\ UNCHANGED <<gen, freed, stack, last, tgt, rngs, fill, quant, elim, bot>>

\* return result / return h2.read(32) / return results
heap_return ==
    /\ heap.pc = "try" /\ heap.at = Len(TryBlock(heap.fn, heap.n))
    /\ heap' = [heap EXCEPT !.pc = "finally"]
    /\ UNCHANGED <<gen, freed, stack, last, tgt, rngs, fill, quant, elim, bot>>

\* a finally clause that frees on the way of an exception only
heap_finally_on_raise ==
    /\ heap.pc = "finally"
    /\ heap' = [heap EXCEPT !.pc = "exit",
                            !.ptr = IF heap.exc # "none" THEN "freed" ELSE @,
                            !.frees = IF heap.exc # "none" THEN @ + 1 ELSE @,
                            !.out = IF heap.exc = "none" THEN "returned" ELSE "raised"]
    /\ UNCHANGED <<gen, freed, stack, last, tgt, rngs, fill, quant, elim, bot>>

\* finally: free(matrix_c), then the return or the exception goes on
heap_finally ==
    /\ heap.pc = "finally"
    /\ heap' = [heap EXCEPT !.pc = "exit", !.ptr = "freed", !.frees = @ + 1,
                            !.out = IF heap.exc = "none" THEN "returned" ELSE "raised"]
    /\ UNCHANGED <<gen, freed, stack, last, tgt, rngs, fill, quant, elim, bot>>

NextHeap ==
    \/ \E fn \in HeapFns, n \in 0..MaxBatch :
           (fn # "compute_pow_batch" => n = 1) /\ heap_call(fn, n)
    \/ \E ok \in BOOLEAN : heap_malloc(ok)
    \/ \E raise \in BOOLEAN : heap_try(raise)
    \/ heap_return
    \/ heap_finally

NoCall ==
    [fn |-> "none", ver |-> 0, pre_pow_hash |-> << >>, timestamp |-> ZeroWord,
     nonces |-> << >>, matrix |-> NoMatrix, uninit |-> "none", error |-> "none",
     result |-> NoResult, hashed |-> << >>, after |-> NoMatrix, before |-> NoResult,
     retry |-> FALSE]

Init ==
    /\ gen = GenIdle
    /\ freed = GarbageC
    /\ stack = StackInit
    /\ last = NoCall
    /\ tgt = TgtIdle
    /\ rngs = [g \in RngIds |-> NoRng]
    /\ fill = FillIdle
    /\ quant = QuantIdle
    /\ elim = ElimIdle
    /\ bot = BotInit
    /\ heap = HeapIdle

GenLoop ==
    \/ generate_matrix_c
    \/ generate_matrix_v2_loop
    \/ generate_matrix_internal

NextGen ==
    \/ \E d \in GenDigests : generate_matrix_v3(d)
    \/ \E d \in GenDigests : generate_matrix_v2(d)
    \/ \E s \in GenSeedsV1 : generate_matrix_v1(s)
    \/ generate_matrix_c
    \/ generate_matrix_v2_loop
    \/ generate_matrix_internal

Next ==
    \/ \E a \in PowArgs : compute_pow_v2(a)
    \/ \E a \in PowArgs : compute_pow_v3(a)
    \/ \E a \in BatchArgs, n \in NonceLists : compute_pow_batch(a, n)
    \/ \E a \in V1Args : calculate_pow(a)

Spec == Init /\ [][Next]_vars

SpecGen == Init /\ [][NextGen]_vars

\* v1 and v2 on the same blocks
NextV1 ==
    \/ \E a \in V1EqArgs : calculate_pow(a)
    \/ \E a \in V2EqArgs : compute_pow_v2(a)

SpecV1 == Init /\ [][NextV1]_vars

\* v2 and v3 side by side, as a miner uses them: generate_matrix of either
\* for the digest of a template, then compute_pow of either on that digest
\* with the matrix returned or with another uint16 matrix
EqDigests == {DOne, DFull}
EqNonces == {N1, N2}
EqPowArgs == {<<gen.input, T1, n, m>> : n \in EqNonces, m \in {gen.result, MatrixA}}

NextV23 ==
    \/ \E d \in EqDigests : last = NoCall /\ generate_matrix_v3(d)
    \/ \E d \in EqDigests : last = NoCall /\ generate_matrix_v2(d)
    \/ generate_matrix_c
    \/ generate_matrix_v2_loop
    \/ \E a \in EqPowArgs : gen.pc = "done" /\ compute_pow_v2(a)
    \/ \E a \in EqPowArgs : gen.pc = "done" /\ compute_pow_v3(a)

SpecV23 == Init /\ [][NextV23]_vars

\* the v3 calls that allocate, side by side
AllocPowArgs == {<<DFull, T1, N1, MatrixA>>}
AllocNonceLists == {<<N1>>, <<N1, N2>>}

NextAlloc ==
    \/ generate_matrix_v3(DFull)
    \/ generate_matrix_c
    \/ \E a \in AllocPowArgs : compute_pow_v3(a)
    \/ \E a \in BatchArgs, n \in AllocNonceLists : compute_pow_batch(a, n)

SpecAlloc == Init /\ [][NextAlloc]_vars

SpecRng == Init /\ [][NextRng]_vars

SpecFill == Init /\ [][NextFill]_vars

SpecQuant == Init /\ [][NextQuant]_vars

SpecElim == Init /\ [][NextElim]_vars

SpecBot == Init /\ [][NextBot]_vars

SpecHeap == Init /\ [][NextHeap]_vars

NextTarget ==
    \/ \E b \in BitsValues : DecodeTarget(b)
    \/ \E h \in HashValues, t \in HashValues : CheckPow(h, t)

SpecTarget == Init /\ [][NextTarget]_vars

\* the comparator of v2 on its own
NextCheckV2 == \E h \in HashValuesV2, t \in TargetsV2 : CheckPowV2(h, t)

SpecCheckV2 == Init /\ [][NextCheckV2]_vars

\* a call that is in its loop keeps running
(***************************************************************************)
(* The retry loop in tabulated form.  Every cell of the matrix is written  *)
(* by an attempt, so an attempt is a function of the variant and of the    *)
(* PRNG state it starts from; the table lists it for the states the loop   *)
(* can start an attempt from.  It is what the fairness condition is        *)
(* stated over.                                                            *)
(***************************************************************************)
LoopSeeds == {SeedsOf(d) : d \in GenDigests} \cup GenSeedsV1

RECURSIVE StatesFrom(_, _)
StatesFrom(s, n) ==
    IF n = 0 THEN {s}
    ELSE {s} \cup StatesFrom(FillC(s, GarbageC, 0).state, n - 1)

LoopStates == UNION {StatesFrom(s, MaxAttempts) : s \in LoopSeeds}

\* <<variant, state before, state after, matrix filled, its rank>>
AttemptTable ==
    {<<3, s, f.state, f.matrix, compute_rank_c(f.matrix)>> :
        <<s, f>> \in {<<t, FillC(t, GarbageC, 0)>> : t \in LoopStates}}
    \cup
    {<<v, s, f.state, f.matrix, compute_rank(f.matrix)>> :
        <<v, s, f>> \in {<<w, t, Fill2D(t, ZeroMatrix, 0)>> :
                            w \in {1, 2}, t \in LoopStates}}

\* one pass of the while True of the variant in progress
GenLoopStep ==
    /\ gen.pc = "loop"
    /\ \E a \in AttemptTable :
         /\ a[1] = gen.ver /\ a[2] = gen.state
         /\ \E g \in {[gen EXCEPT !.start = a[2], !.state = a[3], !.buf = a[4],
                                  !.checked = a[4],
                                  !.rank = a[5],
                                  !.attempts = Min(@ + 1, MaxAttempts)]} :
              IF a[5] = Size
              THEN /\ gen' = [g EXCEPT !.pc = "done",
                                       !.result = IF gen.ver = 3
                                                  THEN CopyToNumpy(a[4]) ELSE a[4]]
                   /\ freed' = IF gen.ver = 3 THEN a[4] ELSE freed
              ELSE /\ gen' = g
                   /\ UNCHANGED freed
    /\ UNCHANGED <<stack, last, tgt, rngs, fill, quant, elim, bot, heap>>

\* the loop is not held up for ever by anything outside it: the call
\* that entered it keeps executing
FairSpecGen == SpecGen /\ WF_vars(GenLoopStep)

\* the tabulated loop takes exactly the steps of the three loops
GenLoopStepIsGenLoop == [][GenLoop <=> GenLoopStep]_vars

(***************************************************************************)
(* Properties of generate_matrix (checked under SpecGen / FairSpecGen)     *)
(***************************************************************************)
\* cell (i, j) of the array handed to the last rank computation
CheckedCell(i, j) ==
    IF gen.ver = 3 THEN gen.checked[i * Size + j] ELSE gen.checked[i][j]

\* C3: whenever generate_matrix (v1, v2 or v3) has returned, the last rank
\* computation returned Size (64) and the matrix returned equals, cell for
\* cell, the contents that rank computation was given; its rank is Size.
C3_ReturnedMatrixIsRankChecked ==
    gen.pc = "done" =>
        /\ gen.rank = Size
        /\ \A i \in Rows, j \in Rows : gen.result[i][j] = CheckedCell(i, j)
        /\ compute_rank(gen.result) = Size

\* a v3 call has returned after a rank-deficient first attempt
C3_Witness ==
    gen.pc = "done" /\ gen.ver = 3 /\ gen.attempts >= 2 /\ gen.input = DOne

\* C4 as stated: generation from the seed (0,0,0,0) terminates and returns
\* a matrix.
C4_ZeroSeedReturns ==
    (gen.pc = "loop" /\ gen.seeds = ZeroState) ~> (gen.pc = "done")

\* C4 as amended: generation from the seed (0,0,0,0) never returns a
\* matrix: in every variant the PRNG state stays (0,0,0,0) and every
\* attempt fills the all-zero matrix, whose rank is 0.
C4_ZeroSeedNeverReturns ==
    (gen.seeds = ZeroState /\ gen.pc \in {"loop", "done"}) =>
        /\ gen.pc = "loop"
        /\ gen.state = ZeroState
        /\ gen.attempts > 0 =>
             /\ gen.rank = 0
             /\ \A i \in Rows, j \in Rows : CheckedCell(i, j) = 0

\* the zero seed, still looping after MaxAttempts attempts
C4_Witness ==
    /\ gen.seeds = ZeroState /\ gen.pc = "loop"
    /\ gen.attempts = MaxAttempts /\ gen.rank = 0

\* C9: a pre-PoW digest given to generate_matrix that is not exactly 32
\* bytes long is rejected: no attempt is made on it and no matrix is
\* returned for it.
C9_WrongLengthRejected ==
    (gen.ver \in {2, 3} /\ Len(gen.input) # PrePowLen) =>
        /\ gen.attempts = 0
        /\ gen.result = NoMatrix

\* C10: the retry loop is guarded: a call that has made MaxAttempts
\* attempts without reaching full rank is no longer looping.
C10_RetryLoopGuarded ==
    ~(gen.pc = "loop" /\ gen.attempts >= MaxAttempts /\ gen.rank # Size)

(***************************************************************************)
(* Properties of the hash calls (checked under Spec)                       *)
(***************************************************************************)
\* the result of the last single call when its uninitialised memory holds
\* the contents block and frame
ResultWith(block, frame) ==
    IF last.ver = 2
    THEN compute_pow_v2_run(last.pre_pow_hash, last.timestamp, last.nonces[1],
                            last.matrix).result
    ELSE compute_pow_v3_run(last.pre_pow_hash, last.timestamp, last.nonces[1],
                            last.matrix, block, frame).result

\* C1: compute_pow (v2 and v3) is deterministic: a call that returns gives
\* OutLen (32) bytes that are a function of (digest, timestamp, nonce,
\* matrix) alone: the same bytes as the identical call just before it, and
\* the same bytes whatever earlier calls left in the reused memory.
C1_ComputePowDeterministic ==
    (last.fn = "compute_pow" /\ last.error = "none") =>
        /\ Len(last.result) = OutLen
        /\ last.before # NoResult => last.result = last.before
        /\ last.result = ResultWith(GarbageC, StackGarbage)
        /\ last.result = ResultWith(freed, stack)

\* a v3 call on memory left by earlier calls repeats the call before it
C1_Witness ==
    /\ last.fn = "compute_pow" /\ last.ver = 3 /\ last.error = "none"
    /\ last.uninit = "stale" /\ last.before # NoResult
    /\ stack # StackInit

\* C2: a compute_pow_batch call that returns gives a list as long as its
\* nonce list whose k-th element is the pair of the k-th nonce and the hash
\* compute_pow returns for that nonce, whatever the other nonces are.
C2_BatchEqualsSingle ==
    (last.fn = "compute_pow_batch" /\ last.error = "none") =>
        /\ Len(last.result) = Len(last.nonces)
        /\ \A k \in 1..Len(last.nonces) :
             last.result[k] =
                <<last.nonces[k],
                  compute_pow_v3_run(last.pre_pow_hash, last.timestamp, last.nonces[k],
                                     last.matrix, GarbageC, StackGarbage).result>>

\* a batch of two different nonces has returned
C2_Witness ==
    /\ last.fn = "compute_pow_batch" /\ last.error = "none"
    /\ Len(last.nonces) = 2 /\ last.nonces[1] # last.nonces[2]
    /\ last.result[1][2] # last.result[2][2]

\* the buffer the last call fed to its first hash
FirstHashed == last.hashed[1].data

\* the digest bytes of the last call (v1 receives them as four words)
DigestBytes ==
    IF last.ver = 1
    THEN [n \in 1..PrePowLen |-> ByteOf(last.pre_pow_hash[(n - 1) \div 8], (n - 1) % 8)]
    ELSE last.pre_pow_hash

\* C8: for a 32-byte digest the buffer fed to the first hash is 80 bytes:
\* the digest, the timestamp little-endian, 32 zero bytes, the nonce
\* little-endian; v1 (from the four words of the digest) and v2/v3 build
\* the same buffer, and it is 80 zero bytes for an all-zero call.
C8_HeaderLayout ==
    (/\ last.fn \in {"compute_pow", "calculate_pow"}
     /\ Len(DigestBytes) = PrePowLen) =>
        /\ Len(FirstHashed) = 80
        /\ Slice(FirstHashed, 0, 32) = DigestBytes
        /\ FromBytesLE(Slice(FirstHashed, 32, 40)) = last.timestamp
        /\ Slice(FirstHashed, 40, 72) = Zeros(32)
        /\ FromBytesLE(Slice(FirstHashed, 72, 80)) = last.nonces[1]
        /\ FirstHashed = Header(DigestBytes, last.timestamp, last.nonces[1])
        /\ FirstHashed = HeaderV1(SeedsOf(DigestBytes), last.timestamp, last.nonces[1])
        /\ (DigestBytes = DZero /\ last.timestamp = ZeroWord /\ last.nonces[1] = ZeroWord)
              => FirstHashed = Zeros(80)

\* a v1 call has hashed a header with a non-zero timestamp and nonce
C8_Witness ==
    /\ last.fn = "calculate_pow" /\ last.timestamp = T1 /\ last.nonces = <<N1>>
    /\ Len(FirstHashed) = 80

(***************************************************************************)
(* Properties of the target functions (checked under SpecTarget)           *)
(***************************************************************************)
\* the value of a byte string read as one big-endian unsigned integer
BigEndianValue(b) ==
    LET bit(i) == Bit(b[Len(b) - ((i - 1) \div 8)], (i - 1) % 8)
        ones   == {i \in 1..(8 * Len(b)) : bit(i) = 1}
        top    == IF ones = {} THEN 0 ELSE CHOOSE i \in ones : \A j \in ones : j <= i
    IN  [i \in 1..top |-> bit(i)]

\* C5: for a 32-byte hash and a 32-byte target, v1 check_pow returns true
\* exactly when the hash read as one big-endian unsigned integer is
\* strictly less than the target read the same way; an equal hash is
\* rejected.
C5_CheckPowStrictBigEndian ==
    (tgt.fn = "check_pow" /\ Len(tgt.pow_hash) = PrePowLen
                          /\ Len(tgt.target) = PrePowLen) =>
        /\ tgt.result = BigLess(BigEndianValue(tgt.pow_hash), BigEndianValue(tgt.target))
        /\ tgt.pow_hash = tgt.target => tgt.result = FALSE

\* a hash one unit below its target, differing from it in the last byte
\* only, is accepted
C5_Witness ==
    /\ tgt.fn = "check_pow" /\ tgt.result = TRUE
    /\ tgt.pow_hash[1] = 255 /\ tgt.target[1] = 255
    /\ tgt.pow_hash[PrePowLen] = 0 /\ tgt.target[PrePowLen] = 1

\* top byte and low 24 bits of the decoded value
ExponentOf(bits) == Field(bits, 24, 8)
CoefficientOf(bits) == Field(bits, 0, 24)

\* C6: bits_to_target never raises, and for exponent e (top byte) and
\* coefficient c (low 24 bits) it returns c >> 8*(3-e), that is
\* c div 256^(3-e), when e <= 3, and c << 8*(e-3), that is c followed by
\* 8*(e-3) zero binary digits, otherwise.
C6_BitsToTargetDecode ==
    tgt.fn = "bits_to_target" =>
        LET e == ExponentOf(tgt.bits)
            c == CoefficientOf(tgt.bits)
        IN  /\ tgt.error = "none"
            /\ e <= 3 => tgt.result = BigOf(c \div Pow2(8 * (3 - e)))
            /\ e > 3 =>
                 /\ Len(tgt.result) = IF c = 0 THEN 0 ELSE BitLen(c) + 8 * (e - 3)
                 /\ \A i \in 1..Len(tgt.result) :
                      tgt.result[i] = IF i <= 8 * (e - 3) THEN 0
                                      ELSE Bit(c, i - 1 - 8 * (e - 3))

\* a decode with the largest exponent and a coefficient whose top bit is set
C6_Witness ==
    /\ tgt.fn = "bits_to_target"
    /\ ExponentOf(tgt.bits) = 255 /\ CoefficientOf(tgt.bits) = 8388608
    /\ Len(tgt.result) = 24 + 8 * 252

\* C7: for a fixed coefficient the decoded target does not decrease when
\* the exponent grows: the target decoded for every smaller exponent is at
\* most the target just decoded.
C7_DecodeMonotonic ==
    tgt.fn = "bits_to_target" =>
        \A e1 \in 0..ExponentOf(tgt.bits) :
            BigLeq(bits_to_target(BitsOf(e1, CoefficientOf(tgt.bits))).result,
                   tgt.result)

\* a decode in the left-shift branch, compared with the right-shift branch
C7_Witness ==
    /\ tgt.fn = "bits_to_target"
    /\ ExponentOf(tgt.bits) = 4 /\ CoefficientOf(tgt.bits) = 65536
    /\ BigLess(bits_to_target(BitsOf(2, 65536)).result, tgt.result)

\* C11: compute_pow (v2, through heavy_hash_with_matrix, and v3) and
\* compute_pow_batch leave every cell of the caller's matrix as it was,
\* when they return and when they raise, and so does every further call
\* on the same matrix.
C11_MatrixNeverMutated ==
    last.fn \in {"compute_pow", "compute_pow_batch"} => last.after = last.matrix

\* a second v2 call over the same matrix, whose cells exceed a nibble, has
\* returned
C11_Witness ==
    /\ last.fn = "compute_pow" /\ last.ver = 2 /\ last.before # NoResult
    /\ last.matrix = MatrixA /\ last.after = MatrixA


NormalMatrix(d) == MatrixOf(SeedsOf(d), ZeroMatrix, MaxAttempts)
NormalHash(nonce) ==
    compute_pow_v3_run(last.pre_pow_hash, last.timestamp, nonce, last.matrix,
                       GarbageC, StackGarbage).result

\* C13: a NULL from malloc in v3 generate_matrix, compute_pow or
\* compute_pow_batch makes the call raise MemoryError: it returns no
\* matrix, no hash and no list, it has hashed nothing but what it hashed
\* before the allocation, the caller's matrix, the stack arrays and the
\* heap are as they were, and the same call made again returns what it
\* returns when no allocation has failed.
C13_AllocFailureIsLocal ==
    /\ [](/\ last.uninit = "null" => last.error = "MemoryError"
          /\ last.error = "MemoryError" =>
                /\ last.uninit = "null"
                /\ last.result = NoResult
                /\ last.after = last.matrix
                /\ last.hashed = IF last.fn = "compute_pow"
                                 THEN <<Pass(Header(last.pre_pow_hash, last.timestamp,
                                                    last.nonces[1]), TagProofOfWorkHash)>>
                                 ELSE << >>
          /\ gen.error = "MemoryError" =>
                /\ gen.pc = "error" /\ gen.result = NoMatrix
                /\ gen.buf = NoMatrix /\ gen.attempts = 0
          /\ (last.retry /\ last.error = "none") =>
                last.result = IF last.fn = "compute_pow"
                              THEN NormalHash(last.nonces[1])
                              ELSE [k \in 1..Len(last.nonces) |->
                                        <<last.nonces[k], NormalHash(last.nonces[k])>>]
          /\ (gen.retry /\ gen.pc = "done") => gen.result = NormalMatrix(gen.input))
    /\ [][(\/ last'.error = "MemoryError" /\ gen' = gen
           \/ gen'.error = "MemoryError" /\ gen' # gen)
          => (stack' = stack /\ freed' = freed)]_vars

\* the batch call and the generate_matrix call that raised have both been
\* made again and have returned
C13_Witness ==
    /\ last.fn = "compute_pow_batch" /\ Len(last.nonces) = 2
    /\ last.retry /\ last.error = "none"
    /\ gen.retry /\ gen.pc = "done"

\* v2 generate_matrix(pre_pow_hash) run to its return: the array of the
\* first of the next n attempts whose rank is Size, NoMatrix when there is
\* none; every attempt fills a new zero array
RECURSIVE generate_matrix_v2_run(_, _)
generate_matrix_v2_run(s0123, n) ==
    IF n = 0 THEN NoMatrix
    ELSE LET f == Fill2D(s0123, ZeroMatrix, 0)
         IN  IF compute_rank(f.matrix) = Size THEN f.matrix
             ELSE generate_matrix_v2_run(f.state, n - 1)

\* what v2 compute_pow does for the arguments of the last call, on the
\* matrix v2 generate_matrix returns for its digest
V2OfLast ==
    compute_pow_v2_run(DigestBytes, last.timestamp, last.nonces[1],
                       generate_matrix_v2_run(SeedsOf(DigestBytes), MaxAttempts))

\* C14: a v1 heavyhash / calculate_pow call that returns gives the bytes
\* of v2 compute_pow(D, timestamp, nonce, generate_matrix(D)) in reverse
\* order, D being the digest whose four little-endian words the v1 call
\* received; both feed the same data to the same two hash passes.
C14_V1IsReversedV2 ==
    last.fn = "calculate_pow" =>
        LET v2 == V2OfLast
        IN  /\ v2.error = "none"
            /\ Len(last.result) = OutLen /\ Len(v2.result) = OutLen
            /\ \A n \in 1..OutLen : last.result[n] = v2.result[OutLen + 1 - n]
            /\ last.hashed = v2.hashed

\* a v1 call whose matrix took a second attempt has returned bytes that
\* are not a palindrome
C14_Witness ==
    /\ last.fn = "calculate_pow" /\ last.pre_pow_hash = SeedsOf(DOne)
    /\ last.timestamp = T1 /\ last.result # Reversed(last.result)
    /\ last.result = Reversed(V2OfLast.result)

\* the bytes the k-th computation of the last call squeezed from its
\* final pass (v1 returns them reversed, the batch pairs them with the nonce)
FinalOf(k) ==
    IF last.fn = "compute_pow_batch" THEN last.result[k][2]
    ELSE IF last.ver = 1 THEN Reversed(last.result)
    ELSE last.result

CarryInto(x, y, i) ==
    IF \E j \in 0..(i - 1) :
          /\ x[j] + y[j] = 2
          /\ \A k \in (j + 1)..(i - 1) : x[k] + y[k] >= 1
    THEN 1 ELSE 0

RefAdd(x, y) == Word([i \in BitIx |-> (x[i] + y[i] + CarryInto(x, y, i)) % 2])
RefRotl(x, k) == Word([i \in BitIx |-> x[(i + WordBits - k) % WordBits]])
RefShl(x, k) == Word([i \in BitIx |-> IF i < k THEN 0 ELSE x[i - k]])
RefXor(x, y) == Word([i \in BitIx |-> IF x[i] = y[i] THEN 0 ELSE 1])

\* the word a call on the state p must return and the state it must leave
RefResult(p) == RefAdd(RefRotl(RefAdd(p[0], p[3]), 23), p[0])
RefState(p) ==
    LET t  == RefShl(p[1], 17)
        a2 == RefXor(p[2], p[0])
        a3 == RefXor(p[3], p[1])
        a1 == RefXor(p[1], a2)
        a0 == RefXor(p[0], a3)
    IN  [n \in 0..3 |-> <<a0, a1, RefXor(a2, t), RefRotl(a3, 45)>>[n + 1]]

\* the first n words of the stream that starts in the state s, after acc,
\* and the state after them
RECURSIVE Stream(_, _, _)
Stream(s, n, acc) ==
    IF n = 0 THEN [words |-> acc, state |-> s]
    ELSE LET r == xoshiro_next(s)
         IN  Stream(r.s, n - 1, Append(acc, r.result))

\* C16: a call on the state (s0, s1, s2, s3) returns rotl(s0 + s3, 23) + s0
\* of that state, modulo 2^64, and leaves the state given by t = s1 << 17;
\* s2 ^= s0; s3 ^= s1; s1 ^= s2; s0 ^= s3; s2 ^= t; s3 = rotl(s3, 45);
\* the words a generator has returned are a function of its seed, so two
\* generators with the same seed agree on every word both have returned;
\* a call on one generator leaves every other generator as it was.
C16_PrngStepAndDeterminism ==
    /\ [](\A g \in RngIds :
            /\ Len(rngs[g].out) >= 1 =>
                  /\ rngs[g].out[Len(rngs[g].out)] = RefResult(rngs[g].prev)
                  /\ \A n \in 0..3 : rngs[g].s[n] = RefState(rngs[g].prev)[n]
            /\ rngs[g].out = Stream(rngs[g].seed, Len(rngs[g].out), << >>).words
            /\ \A h \in RngIds :
                  (rngs[h].kind # "none" /\ rngs[g].kind # "none"
                                       /\ rngs[h].seed = rngs[g].seed) =>
                      \A k \in 1..Min(Len(rngs[g].out), Len(rngs[h].out)) :
                          rngs[g].out[k] = rngs[h].out[k])
    /\ [][\A g \in RngIds, h \in RngIds :
            (g # h /\ rngs'[g] # rngs[g]) => rngs'[h] = rngs[h]]_vars

\* an object and a state array with the same non-zero seed, one two words
\* ahead of the other
C16_Witness ==
    /\ rngs[1].kind = "object" /\ rngs[2].kind = "array"
    /\ rngs[1].seed = SeedsOf(DFull) /\ rngs[2].seed = SeedsOf(DFull)
    /\ Len(rngs[1].out) = 3 /\ Len(rngs[2].out) = 1
    /\ rngs[1].out[1] = rngs[2].out[1] /\ rngs[1].s # rngs[2].s

\* cell (i, j) of the array of the fill loop
FillCell(i, j) ==
    IF fill.ver = 3 THEN fill.matrix[i * FillSize + j] ELSE fill.matrix[i][j]

\* (w >> 4k) & 0xF from the 16-bit part of w that holds it
NibbleRef(w, k) == (Limb(w, k \div 4) \div Pow2(4 * (k % 4))) % 16

\* C17: an attempt draws rows * G words, G being the words per row (4 in
\* the source, 256 words for 64 x 64), row by row, and with w(n) the n-th
\* of them cell (i, 16g + k) holds (w(G * i + g) >> 4k) & 0xF; every cell
\* is written by every attempt, whatever the array held before, and every
\* cell is in 0..15.
C17_FillLayout ==
    fill.n >= 1 =>
        LET st == Stream(fill.start, DrawsFor(FillHeight, FillSize), << >>)
            G  == WordsFor(FillSize)
        IN  /\ Len(st.words) = FillHeight * G
            /\ \A n \in 0..3 : fill.state[n] = st.state[n]
            /\ \A i \in FillRows, g \in 0..(G - 1), k \in 0..(NibblesPerWord - 1) :
                  /\ FillCell(i, NibblesPerWord * g + k) \in 0..15
                  /\ FillCell(i, NibblesPerWord * g + k)
                        = NibbleRef(st.words[G * i + g + 1], k)

\* the second attempt of v3 has written over the block that held the
\* first, and of v1 over the array that held the first
C17_Witness ==
    /\ fill.ver \in {1, 3} /\ fill.n = 2
    /\ fill.buf # fill.matrix
    /\ FillCell(FillHeight - 1, FillSize - 1) \in 0..15

\* cell (i, j) of the array the last attempt built
GenCell(i, j) ==
    IF gen.ver = 3 THEN gen.checked[i * Size + j] ELSE gen.checked[i][j]

\* C18: attempt k (from 1) of a call starts from the PRNG state left by
\* the draws of attempts 1 .. k - 1 of the one stream seeded by the digest,
\* never from the seed again, and is built from the next DrawsPerAttempt
\* outputs of that stream (256 in the source); v1 and v2, which build a
\* new generator object from the four state words, make the same attempts
\* as v3.
C18_RetryContinuesStream ==
    (gen.pc \in {"loop", "done"} /\ gen.attempts >= 1
        /\ (gen.attempts < MaxAttempts \/ gen.pc = "done")) =>
        LET pre == Stream(gen.seeds, DrawsPerAttempt * (gen.attempts - 1), << >>)
            att == Stream(pre.state, DrawsPerAttempt, << >>)
        IN  /\ \A n \in 0..3 : gen.start[n] = pre.state[n]
            /\ \A n \in 0..3 : gen.state[n] = att.state[n]
            /\ \A i \in Rows, g \in 0..(WordsPerRow - 1), k \in 0..(NibblesPerWord - 1) :
                  NibblesPerWord * g + k < Size =>
                      GenCell(i, NibblesPerWord * g + k)
                          = NibbleRef(att.words[WordsPerRow * i + g + 1], k)

\* a v2 call whose first attempt was rejected has returned its second
C18_Witness ==
    /\ gen.ver = 2 /\ gen.pc = "done" /\ gen.attempts = 2
    /\ gen.start # gen.seeds

\* a further pass of the retry loop of a call that has made an attempt
\* starts from another PRNG state than the attempt before it and builds
\* another matrix than the one just rejected
Advances ==
    (gen.pc = "loop" /\ gen.attempts >= 1 /\ gen' # gen) =>
        /\ gen'.start # gen.start
        /\ gen'.checked # gen.checked

\* C19: for every seed, within one generate_matrix call the PRNG state
\* always advances: no two attempts start from the same PRNG state and no
\* attempt rebuilds a matrix that an earlier attempt of the call built and
\* rejected.
C19_ForwardProgress == [][Advances]_vars

\* C19 for the seeds other than (0,0,0,0): every further attempt starts
\* from another state and builds another matrix.
C19_NonZeroSeedAdvances == [][gen.seeds # ZeroState => Advances]_vars

\* the zero seed after its second attempt: the state it started from is
\* the state it left, and the rejected all-zero matrix was built again
C19_Witness ==
    /\ gen.seeds = ZeroState /\ gen.pc = "loop" /\ gen.attempts = 2
    /\ gen.state = gen.start
    /\ gen.rank = 0

\* the first-pass hash of computation k of the last call, the digest it
\* passed to the final hash, and the matrix it used
FirstOf(k) == cSHAKE256(last.hashed[2 * k - 1].data, TagProofOfWorkHash, HashLen)
DigestOf(k) == last.hashed[2 * k].data
MatrixUsed ==
    IF last.ver = 1 THEN MatrixOf(last.pre_pow_hash, ZeroMatrix, MaxAttempts)
    ELSE last.matrix

\* entry n of the vector of the bytes h1: high nibble of byte n / 2 for
\* even n, low nibble for odd n
RefNibble(h1, n) ==
    LET b == h1[(n \div 2) + 1]
    IN  IF n % 2 = 0 THEN b \div NibblesPerWord ELSE b - NibblesPerWord * (b \div NibblesPerWord)

\* the sum over columns j .. Size - 1 of row i, and p[i]
RECURSIVE RefDot(_, _, _, _)
RefDot(mat, h1, i, j) ==
    IF j >= Size THEN 0
    ELSE mat[i][j] * RefNibble(h1, j) + RefDot(mat, h1, i, j + 1)

RefP(mat, h1, i) == (RefDot(mat, h1, i, 0) \div Pow2(QuantShift)) % 16

\* a ^ b on bytes, bit by bit
RefXor8(a, b) ==
    LET x(k) == IF (a \div Pow2(k)) % 2 = (b \div Pow2(k)) % 2 THEN 0 ELSE Pow2(k)
    IN  x(0) + x(1) + x(2) + x(3) + x(4) + x(5) + x(6) + x(7)

RECURSIVE RowTotal(_, _, _, _)
RowTotal(row, v, lo, hi) ==
    IF lo > hi THEN 0
    ELSE IF lo = hi THEN row[lo] * v[lo]
    ELSE RowTotal(row, v, lo, (lo + hi) \div 2)
         + RowTotal(row, v, ((lo + hi) \div 2) + 1, hi)

\* ((sum over j of row[j] * v[j]) >> 10) & 0xF for the row being summed
QuantNibble == (RowTotal(quant.row, quant.v, 0, QuantCols - 1) \div 1024) % 16

\* C21: for a row of 64 nibble cells and a nibble vector, every backend
\* contributes the nibble ((sum of row[j] * v[j]) >> 10) & 0xF to the
\* digest; v2 and v3 hold that nibble in p[i], v1 holds the shifted sum
\* cut to 16 bits and masks it at the XOR step.
C21_QuantizationSame ==
    quant.pc = "done" =>
        /\ quant.nib = QuantNibble
        /\ quant.ver \in {2, 3} => quant.p = QuantNibble
        /\ quant.ver = 1 =>
               quant.p = (RowTotal(quant.row, quant.v, 0, QuantCols - 1) \div 1024) % 65536

\* v1 has quantized a row whose nibble is neither 0 nor the largest
C21_Witness ==
    /\ quant.pc = "done" /\ quant.ver = 1
    /\ quant.nib = 7 /\ quant.s = 64 * 15 * 8

\* C26: with cells and vector entries in 0..15 a row sum is at most
\* 64 * 15 * 15 = 14400: no addition goes past the 64 bits of the
\* accumulator, the shifted sum fits the 16 bits of v1's p[i], it is at
\* most 14, and the mask & 0xF leaves it as it is.
C26_AccumulatorNeverWraps ==
    /\ ~quant.carry
    /\ quant.s <= 64 * 15 * 15
    /\ quant.pc = "done" =>
           /\ quant.shifted < Pow2(PBitsV1)
           /\ quant.shifted <= 14
           /\ quant.p \in 0..14
           /\ quant.p = quant.shifted /\ quant.nib = quant.shifted

\* the row and the vector of all 15 have been quantized: sum 14400, p 14
C26_Witness ==
    /\ quant.pc = "done" /\ quant.s = 14400 /\ quant.p = 14
    /\ \A j \in QuantIx : quant.row[j] = 15 /\ quant.v[j] = 15

(***************************************************************************)
(* C22: the passes of the rank computation                                 *)
(***************************************************************************)
\* the column of the last pass, and whether that pass found a pivot
ElimCol == elim.i - 1
PivotFound == elim.pc # "idle" /\ elim.pivot \in DOMAIN elim.mat_float

\* the pivot is the lowest-indexed row not yet selected whose entry in the
\* column is non-negligible; a pass finds none only when there is none
PivotIsFirst ==
    /\ PivotFound =>
           /\ ~elim.selected_before[elim.pivot]
           /\ NonNegligible(elim.before[elim.pivot][ElimCol])
           /\ \A k \in DOMAIN elim.before :
                  k < elim.pivot =>
                      \/ elim.selected_before[k]
                      \/ ~NonNegligible(elim.before[k][ElimCol])
    /\ (elim.pc # "idle" /\ elim.pivot = SizeOf(elim.mat_float)) =>
           /\ \A k \in DOMAIN elim.before :
                  \/ elim.selected_before[k]
                  \/ ~NonNegligible(elim.before[k][ElimCol])
           /\ elim.mat_float = elim.before
           /\ elim.row_selected = elim.selected_before

\* the pivot row is marked selected and the entries right of the column
\* are divided by the entry in the column; the elimination leaves it so
PivotMarkedAndNormalized ==
    PivotFound =>
        /\ elim.row_selected = [elim.selected_before EXCEPT ![elim.pivot] = TRUE]
        /\ elim.mat_float[elim.pivot] = elim.normal[elim.pivot]
        /\ \A k \in DOMAIN elim.before :
               k # elim.pivot => elim.normal[k] = elim.before[k]
        /\ \A p \in DOMAIN elim.before :
               IF p > ElimCol
               THEN FracMul(elim.normal[elim.pivot][p], elim.before[elim.pivot][ElimCol])
                        = elim.before[elim.pivot][p]
               ELSE elim.normal[elim.pivot][p] = elim.before[elim.pivot][p]

\* the rank is the number of selected rows, between 0 and the side, and it
\* is what the call returns
RankCountsSelected ==
    elim.pc # "idle" =>
        /\ elim.rank = Cardinality({k \in DOMAIN elim.row_selected : elim.row_selected[k]})
        /\ elim.rank \in 0..SizeOf(elim.mat_float)
        /\ elim.pc = "done" => elim.result = elim.rank

\* the elimination changed row k
Eliminated(k) == elim.mat_float[k] # elim.normal[k]

\* C22 as stated: the elimination changes only rows that are not the
\* pivot, were not selected before and have a non-negligible entry in the
\* column; a row selected for an earlier column is never changed again.
C22_OnlyUnselectedRowsEliminated ==
    /\ PivotIsFirst /\ PivotMarkedAndNormalized /\ RankCountsSelected
    /\ PivotFound =>
           \A k \in DOMAIN elim.mat_float :
               /\ Eliminated(k) =>
                      /\ k # elim.pivot
                      /\ ~elim.selected_before[k]
                      /\ NonNegligible(elim.normal[k][ElimCol])
               /\ elim.selected_before[k] => elim.mat_float[k] = elim.before[k]

\* C22 amended: the elimination subtracts the pivot row, times the entry
\* in the column, from every row other than the pivot whose entry in the
\* column is non-negligible, whether that row was selected before or not,
\* and changes no other row; the pivot rule, the marking and normalizing,
\* the single selection of a row and the rank stand as stated.
C22_AllOtherRowsEliminated ==
    /\ PivotIsFirst /\ PivotMarkedAndNormalized /\ RankCountsSelected
    /\ PivotFound =>
           \A k \in DOMAIN elim.mat_float :
               IF k # elim.pivot /\ NonNegligible(elim.normal[k][ElimCol])
               THEN \A p \in DOMAIN elim.mat_float :
                        elim.mat_float[k][p] =
                            IF p > ElimCol
                            THEN FracSub(elim.normal[k][p],
                                         FracMul(elim.normal[elim.pivot][p],
                                                 elim.normal[k][ElimCol]))
                            ELSE elim.normal[k][p]
               ELSE ~Eliminated(k)

\* a pass has changed a row that was selected for an earlier column
C22_Witness ==
    /\ PivotFound
    /\ \E k \in DOMAIN elim.mat_float :
           /\ elim.selected_before[k] /\ k # elim.pivot
           /\ elim.mat_float[k] # elim.before[k]

(***************************************************************************)
(* C23: the comparator of v2                                               *)
(***************************************************************************)
\* bytes 0..7 of h, read as a little-endian integer, are below the 64-bit
\* t: the highest byte where they differ is smaller in h
LeadingBelow(h, t) ==
    \E n \in 1..8 : /\ h[n] < ByteOf(t, n - 1)
                    /\ \A m \in (n + 1)..8 : h[m] = ByteOf(t, m - 1)

\* C23: v2 check_pow(hash, target) is true exactly when bytes 0..7 of the
\* hash, read as a little-endian unsigned integer, are strictly below the
\* 64-bit target; every hash with the same first 8 bytes gets the same
\* verdict for that target.
C23_OnlyLeadingBytesCompared ==
    tgt.fn = "check_pow_v2" =>
        /\ tgt.result = LeadingBelow(tgt.pow_hash, tgt.target)
        /\ \A h \in HashValuesV2 :
               SubSeq(h, 1, 8) = SubSeq(tgt.pow_hash, 1, 8) =>
                   check_pow_v2(h, tgt.target) = tgt.result

\* a hash whose bytes 8 and 31 are 255 has been accepted against a target
\* that differs from it in the low byte only
C23_Witness ==
    /\ tgt.fn = "check_pow_v2" /\ tgt.result = TRUE
    /\ tgt.pow_hash[9] = 255 /\ tgt.pow_hash[PrePowLen] = 255
    /\ tgt.pow_hash[8] = 1 /\ ByteOf(tgt.target, 7) = 1
    /\ tgt.pow_hash[1] = 1 /\ ByteOf(tgt.target, 0) = 255

(***************************************************************************)
(* C24: v2 and v3                                                          *)
(***************************************************************************)
\* v2 generate_matrix run to its return within n attempts: the array
\* returned and the attempts made, k of them before this one
RECURSIVE RunV2(_, _, _)
RunV2Check(f, n, k) ==
    IF compute_rank(f.matrix) = Size THEN [matrix |-> f.matrix, attempts |-> k + 1]
    ELSE RunV2(f.state, n - 1, k + 1)
RunV2(s0123, n, k) ==
    IF n = 0 THEN [matrix |-> NoMatrix, attempts |-> k]
    ELSE RunV2Check(Fill2D(s0123, ZeroMatrix, 0), n, k)

\* v3 generate_matrix likewise, on the block malloc returned
RECURSIVE RunV3(_, _, _, _)
RunV3Check(f, n, k) ==
    IF compute_rank_c(f.matrix) = Size
    THEN [matrix |-> CopyToNumpy(f.matrix), attempts |-> k + 1]
    ELSE RunV3(f.state, f.matrix, n - 1, k + 1)
RunV3(state, block, n, k) ==
    IF n = 0 THEN [matrix |-> NoMatrix, attempts |-> k]
    ELSE RunV3Check(FillC(state, block, 0), n, k)

\* what the other of the two backends returns for the arguments of the
\* last compute_pow call, its uninitialised memory holding block and frame
OtherPow(block, frame) ==
    IF last.ver = 3
    THEN compute_pow_v2_run(last.pre_pow_hash, last.timestamp, last.nonces[1],
                            last.matrix)
    ELSE compute_pow_v3_run(last.pre_pow_hash, last.timestamp, last.nonces[1],
                            last.matrix, block, frame)

\* C24: for a 32-byte digest, a generate_matrix call of v2 or v3 that
\* returns gives the matrix the other backend returns, after the same
\* number of attempts; a compute_pow call of v2 or v3 that returns gives
\* the 32 bytes, in the same order, that the other backend returns for the
\* same (digest, timestamp, nonce, matrix), having hashed the same data.
C24_V2EqualsV3 ==
    /\ (gen.pc = "done" /\ gen.ver = 2 /\ Len(gen.input) = PrePowLen) =>
           /\ RunV3(gen.seeds, GarbageC, MaxAttempts, 0)
                  = [matrix |-> gen.result, attempts |-> gen.attempts]
           /\ RunV3(gen.seeds, freed, MaxAttempts, 0).matrix = gen.result
    /\ (gen.pc = "done" /\ gen.ver = 3 /\ Len(gen.input) = PrePowLen) =>
           RunV2(gen.seeds, MaxAttempts, 0)
               = [matrix |-> gen.result, attempts |-> gen.attempts]
    /\ (/\ last.fn = "compute_pow" /\ last.error = "none"
        /\ Len(last.pre_pow_hash) = PrePowLen) =>
           /\ Len(last.result) = OutLen
           /\ \A n \in 1..OutLen :
                  /\ last.result[n] = OtherPow(GarbageC, StackGarbage).result[n]
                  /\ last.result[n] = OtherPow(freed, stack).result[n]
           /\ last.hashed = OtherPow(GarbageC, StackGarbage).hashed

\* v3 has returned a matrix on its second attempt and hashed with it in
\* memory that earlier calls left
C24_Witness ==
    /\ gen.pc = "done" /\ gen.ver = 3 /\ gen.attempts = 2
    /\ last.fn = "compute_pow" /\ last.ver = 3 /\ last.error = "none"
    /\ last.matrix = gen.result /\ last.uninit = "stale"
    /\ last.result # Reversed(last.result)

(***************************************************************************)
(* C25, C28: restarting the bot                                            *)
(***************************************************************************)
ScriptOrder == <<"syntax", "test", "kill", "start">>

\* the script has taken the step
Took(step) == \E n \in 1..Len(bot.rs.log) : bot.rs.log[n] = step

\* C25: a run of restart_with_test.sh takes its steps in the order syntax
\* check, test run, stop, start; a run in which the syntax check or the
\* test run failed has ended with a non-zero status without the stop and
\* the start step, and no bot that ran when it began was killed; the stop
\* step is taken only in runs in which both gates passed.
C25_StopOnlyAfterBothGates ==
    /\ Len(bot.rs.log) <= Len(ScriptOrder)
    /\ \A n \in 1..Len(bot.rs.log) : bot.rs.log[n] = ScriptOrder[n]
    /\ ((Took("syntax") /\ ~bot.rs.syntax_ok) \/ (Took("test") /\ ~bot.rs.test_ok)) =>
           /\ bot.rs.pc = "failed" /\ bot.rs.exit > 0
           /\ ~Took("kill") /\ ~Took("start")
           /\ \A p \in bot.rs.old : bot.status[p] \in {"running", "exited"}
    /\ Took("kill") => bot.rs.syntax_ok /\ bot.rs.test_ok
    /\ ~Took("kill") => \A p \in bot.rs.old : bot.status[p] \in {"running", "exited"}

\* a run whose tests failed has ended and the bot that ran before it runs
C25_Witness ==
    /\ bot.rs.pc = "failed" /\ bot.rs.syntax_ok /\ ~bot.rs.test_ok
    /\ bot.rs.log = <<"syntax", "test">>
    /\ bot.rs.old = {1} /\ bot.status[1] = "running"

\* C28 as stated: at no time do two nami_kaspa_bot.py processes run.
C28_AtMostOneBot == Cardinality(Running(bot.status)) <= 1

\* the watchdog starts a bot only after its pgrep found none
C28_WatchdogStartsAfterEmptyCheck ==
    /\ bot.wd.pc = "restart" => bot.wd.seen = 0
    /\ [][(\E p \in Pids : bot.by[p] # "watchdog" /\ bot'.by[p] = "watchdog")
            => bot.wd.pc = "restart" /\ bot.wd.seen = 0]_vars

\* a bot the watchdog started and a bot the script started run together
C28_Witness ==
    \E p, q \in Pids :
        /\ bot.status[p] = "running" /\ bot.by[p] = "watchdog"
        /\ bot.status[q] = "running" /\ bot.by[q] = "script"

(***************************************************************************)
(* C27: the buffer of the v3 calls                                         *)
(***************************************************************************)
\* C27: in generate_matrix, compute_pow and compute_pow_batch of v3 a
\* buffer that was allocated is freed exactly once by the time the call is
\* over, whether it returned or raised, also midway through a batch; the
\* buffer is never read or written when it is not live; free is never
\* called when malloc failed.
C27_BufferFreedExactlyOnce ==
    /\ heap.frees <= 1
    /\ heap.stray = 0
    /\ heap.ptr \in {"unset", "null"} => heap.frees = 0 /\ heap.uses = 0
    /\ heap.ptr = "freed" <=> heap.frees = 1
    /\ heap.pc = "exit" =>
           /\ heap.ptr \in {"null", "freed"}
           /\ heap.ptr = "null" => heap.out = "raised" /\ heap.exc = "MemoryError"
           /\ heap.out = IF heap.exc = "none" THEN "returned" ELSE "raised"

\* a batch has raised at its second nonce, after the buffer served the
\* first, and the buffer is freed
C27_Witness ==
    /\ heap.pc = "exit" /\ heap.fn = "compute_pow_batch" /\ heap.out = "raised"
    /\ heap.at = 4 /\ heap.uses = 2 /\ heap.ptr = "freed" /\ heap.frees = 1

=============================================================================
